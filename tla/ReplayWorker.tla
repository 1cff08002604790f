---------------------------- MODULE ReplayWorker ----------------------------
(***************************************************************************)
(* The replay worker: ReplayRole of crates/replay/src/role.rs.  It keeps a *)
(* DAG and a buffer of early events per server, decides for every event of *)
(* the gossip topic which server it belongs to, and answers Sync requests. *)
(*                                                                         *)
(* An event is its own hash.  ReplayEvent is what honest authors signed:   *)
(* per server, one chain for each of its authors, the owner's first event  *)
(* being the CreateServer event whose hash is the server's id.  An event   *)
(* may be delivered in any order, several times, or never: the gossip      *)
(* topic loses messages, and NetworkActor drops what does not fit the      *)
(* state actor's mailbox.  try_insert is one call: OnEvent starts it, and  *)
(* TryInsert is one turn of its loop.  Which waiting events a full buffer  *)
(* evicts is PendingBuffer's matter; here it is one bucket, any of them,   *)
(* since hashes are in no particular order.                                *)
(***************************************************************************)
EXTENDS Integers, Sequences, FiniteSets

CONSTANTS
    Server,         \* server ids: the hashes of the CreateServer events
    Default,        \* the id "default"
    ReplayEvent,    \* records with server, author, seq and create
    Size,           \* the serialized size of an event
    MaxServers,     \* MAX_SERVERS
    MaxPending,     \* pending_max_entries
    Budget,         \* SYNC_ENVELOPE_BUDGET
    Guard           \* SYNC_DELTA_OOM_GUARD

Writer == {e.author : e \in ReplayEvent}
NoEvent == [server |-> Default]

\* e.prev: the event before it in its author's chain, or EventHash::ZERO.
PrevOf(e) ==
    IF e.seq = 1 THEN NoEvent
    ELSE CHOOSE f \in ReplayEvent :
            f.server = e.server /\ f.author = e.author /\ f.seq = e.seq - 1

ASSUME ReplayAssumption ==
    /\ Default \notin Server
    /\ MaxServers \in Nat \ {0} /\ MaxPending \in Nat /\ Budget \in Nat /\ Guard \in Nat \ {0, 1}
    /\ IsFiniteSet(ReplayEvent)
    /\ \A e \in ReplayEvent :
        /\ e.server \in Server /\ e.seq \in Nat \ {0} /\ e.create \in BOOLEAN
        /\ e.create => e.seq = 1
        /\ e.seq > 1 => \E f \in ReplayEvent :
                            f.server = e.server /\ f.author = e.author /\ f.seq = e.seq - 1
        /\ \A f \in ReplayEvent :
            f.server = e.server /\ f.author = e.author /\ f.seq = e.seq => f = e
        /\ Size[e] \in Nat \ {0}

\* The envelope is full long before the guard on the walk is reached.
ASSUME GuardAssumption == \A e \in ReplayEvent : Guard * Size[e] > Budget

VARIABLES
    servers,            \* servers: [dag, pending] by id
    accessed,           \* the ids by last_access, the least recent first
    inserting,          \* try_insert: the server it works on
    queue,              \* try_insert: the events still to insert
    served              \* the last Sync request with its answer, until the next event

replayVars == <<servers, accessed, inserting, queue, served>>

Unserved == [server |-> Default]

ReplayInit ==
    /\ servers = << >>
    /\ accessed = << >>
    /\ inserting = Default
    /\ queue = {}
    /\ served = Unserved

-----------------------------------------------------------------------------
(* EventDag, as far as the role needs it: a set of events.                 *)

ChainOf(dag, a) == {x \in dag : x.author = a}

LatestSeq(dag, a) == Cardinality(ChainOf(dag, a))

\* heads[a]; NoEvent when a has none.
HeadOf(dag, a) ==
    IF ChainOf(dag, a) = {} THEN NoEvent
    ELSE CHOOSE x \in ChainOf(dag, a) : \A y \in ChainOf(dag, a) : y.seq <= x.seq

\* EventDag::insert on a well-formed event.
InsertResult(dag, e) ==
    IF e \in dag THEN "Duplicate"
    ELSE IF dag = {} /\ ~ e.create THEN "NotGenesis"
    ELSE IF dag # {} /\ e.create THEN "DuplicateGenesis"
    ELSE IF e.seq # LatestSeq(dag, e.author) + 1 THEN "SeqGap"
    ELSE IF PrevOf(e) # HeadOf(dag, e.author) THEN "PrevMismatch"
    ELSE "Ok"

-----------------------------------------------------------------------------
(* on_event and ingest_event.                                              *)

\* Mutant of Candidates: an event that nothing places goes to any server there is.
CandidatesAnyServer(e) ==
    LET byPrev == {s \in DOMAIN servers : PrevOf(e) \in servers[s].dag}
    IN  IF e.create THEN {e.server}
        ELSE IF byPrev # {} THEN byPrev
        ELSE IF servers # << >> THEN DOMAIN servers
        ELSE {Default}

\* The ids on_event may choose; `find' on the map takes any that fits.
Candidates(e) ==
    LET byPrev == {s \in DOMAIN servers : PrevOf(e) \in servers[s].dag}
        byAuthor == {s \in DOMAIN servers : ChainOf(servers[s].dag, e.author) # {}}
    IN  IF e.create THEN {e.server}
        ELSE IF byPrev # {} THEN byPrev
        ELSE IF byAuthor # {} THEN byAuthor
        ELSE {Default}

\* The server that goes when there is no room for a new one: the one whose last
\* access is longest ago.
MadeRoom(id) ==
    IF Cardinality(DOMAIN servers) >= MaxServers /\ id \notin DOMAIN servers
    THEN {Head(accessed)} ELSE {}

NewServer == [dag |-> {}, pending |-> {}]

\* ingest_event up to the call of try_insert.
Ingest(id, e) ==
    LET old == DOMAIN servers \ MadeRoom(id)
    IN  /\ servers' = [s \in old \cup {id} |-> IF s \in old THEN servers[s] ELSE NewServer]
        /\ accessed' = Append(SelectSeq(accessed, LAMBDA s : s \in old \ {id}), id)
        /\ inserting' = id
        /\ queue' = {e}

OnEvent(e) ==
    /\ queue = {}
    /\ \E id \in Candidates(e) : Ingest(id, e)
    /\ served' = Unserved

-----------------------------------------------------------------------------
(* try_insert.                                                             *)

\* What may be in the buffer after buffer_for_prev_at.
Buffered(pending, e) ==
    LET all == pending \cup {e}
    IN  IF Cardinality(all) <= MaxPending THEN {all}
        ELSE {{x \in all : PrevOf(x) # PrevOf(y)} : y \in all}

\* Mutant of Resolved: what waits for the event's own predecessor.
ResolvedByPrev(pending, e) == {x \in pending : PrevOf(x) = PrevOf(e)}

\* resolve(hash), and resolve(ZERO) after a CreateServer event.
Resolved(pending, e) ==
    {x \in pending : PrevOf(x) = e \/ (e.create /\ PrevOf(x) = NoEvent)}

TryInsert ==
    /\ \E e \in queue :
        LET data == servers[inserting]
            result == InsertResult(data.dag, e)
            resolved == Resolved(data.pending, e)
        IN  \/ /\ result = "Ok"
               /\ servers' = [servers EXCEPT ![inserting].dag = @ \cup {e},
                                             ![inserting].pending = @ \ resolved]
               /\ queue' = (queue \ {e}) \cup resolved
            \/ /\ result \in {"SeqGap", "NotGenesis"}
               /\ \E p \in Buffered(data.pending, e) :
                    servers' = [servers EXCEPT ![inserting].pending = p]
               /\ queue' = queue \ {e}
            \/ /\ result \notin {"Ok", "SeqGap", "NotGenesis"}
               /\ queue' = queue \ {e}
               /\ UNCHANGED servers
    /\ UNCHANGED <<accessed, inserting, served>>

-----------------------------------------------------------------------------
(* handle_request, for Sync.                                               *)

Sequences(S) == {s \in [1 .. Cardinality(S) -> S] : \A i, j \in DOMAIN s : s[i] = s[j] => i = j}

\* A chain from just after the requester's head.
ChainSince(dag, a, seq) ==
    [i \in 1 .. LatestSeq(dag, a) - seq |-> CHOOSE x \in ChainOf(dag, a) : x.seq = seq + i]

\* events_since: the authors come in the order of a hash map, each chain in its own.
Walk(dag, heads, order) ==
    LET upTo[n \in 0 .. Len(order)] ==
            IF n = 0 THEN << >>
            ELSE upTo[n - 1] \o ChainSince(dag, order[n], heads[order[n]])
    IN  upTo

\* The walk ends at the guard.
Delta(dag, heads, order) ==
    LET all == Walk(dag, heads, order)[Len(order)]
    IN  SubSeq(all, 1, IF Len(all) < Guard THEN Len(all) ELSE Guard)

\* The sum of the sizes.
Weight(es) == Cardinality(UNION {{i} \X (1 .. Size[es[i]]) : i \in DOMAIN es})

\* Mutant of FirstBatch: what did not fit is not announced.
FirstBatchLast(es) ==
    LET fits == {n \in 1 .. Len(es) : n = 1 \/ Weight(SubSeq(es, 1, n)) <= Budget}
        n == IF es = << >> THEN 0 ELSE CHOOSE m \in fits : \A k \in fits : k <= m
    IN  [events |-> SubSeq(es, 1, n), more |-> FALSE]

\* The first batch of pack_sync_batches: as many events as the budget holds, one at
\* least, and whether a batch follows.
FirstBatch(es) ==
    LET fits == {n \in 1 .. Len(es) : n = 1 \/ Weight(SubSeq(es, 1, n)) <= Budget}
        n == IF es = << >> THEN 0 ELSE CHOOSE m \in fits : \A k \in fits : k <= m
    IN  [events |-> SubSeq(es, 1, n), more |-> n < Len(es)]

\* they_are_behind.
Behind(dag, heads) == \E a \in Writer : LatestSeq(dag, a) > heads[a]

Answer(id, heads, order) ==
    LET dag == servers[id].dag
        delta == Delta(dag, heads, order)
        batch == FirstBatch(delta)
    IN  IF id \notin DOMAIN servers THEN [kind |-> "Denied"]
        ELSE IF delta = << >> /\ (\E a \in Writer : heads[a] > 0) /\ Behind(dag, heads)
            THEN [kind |-> "Snapshot"]
        ELSE [kind |-> "SyncBatch", events |-> batch.events, more |-> batch.more]

\* heads: what the requester has of each author, 0 for one it does not list.
HandleSync(id, heads) ==
    /\ queue = {}
    /\ \E order \in Sequences(Writer) :
        served' = [server |-> id, heads |-> heads, answer |-> Answer(id, heads, order)]
    /\ UNCHANGED <<servers, accessed, inserting, queue>>

-----------------------------------------------------------------------------

MaxSeq(a) == Cardinality({e.seq : e \in ChainOf(ReplayEvent, a)})

Heads == {h \in [Writer -> 0 .. Cardinality(ReplayEvent)] : \A a \in Writer : h[a] <= MaxSeq(a)}

ReplayNext ==
    \/ \E e \in ReplayEvent : OnEvent(e)
    \/ TryInsert
    \/ \E id \in Server, h \in Heads : HandleSync(id, h)

ReplaySpec == ReplayInit /\ [][ReplayNext]_replayVars

-----------------------------------------------------------------------------
(* Properties.                                                             *)

\* The events of one server never enter the DAG of another, although on_event guesses
\* the server from the predecessor or the author, authors are in several servers,
\* and a server may be evicted and tracked again.
ServersAreIsolated == \A s \in DOMAIN servers : \A e \in servers[s].dag : e.server = s

\* An answer to Sync continues each of the requester's chains without a gap, and when
\* it says that nothing more follows the requester has all the worker has: a requester
\* who asks again with its new heads while `more' is set misses nothing.  The snapshot
\* branch is never taken: nothing is ever compacted.
AnswersContinue ==
    served # Unserved /\ served.server \in DOMAIN servers =>
        LET es == served.answer.events
            got(a) == {i \in DOMAIN es : es[i].author = a}
        IN  /\ served.answer.kind = "SyncBatch"
            /\ \A a \in Writer : \A i \in got(a) :
                es[i].seq = served.heads[a] + Cardinality({j \in got(a) : j <= i})
            /\ ~ served.answer.more =>
                \A a \in Writer :
                    served.heads[a] + Cardinality(got(a)) >= LatestSeq(servers[served.server].dag, a)

\* When try_insert returns, nothing waits in a server's buffer for an event that is in
\* the server's DAG: one event that closes a gap brings in all that waited behind it.
NoReadyReplayWaits ==
    queue = {} => \A s \in DOMAIN servers :
                    \A e \in servers[s].pending : PrevOf(e) \notin servers[s].dag

\* What on_event says of its last resort, "'default' bucket (event will be buffered
\* until its predecessor chain connects it to a known server)": no event is left
\* there once its predecessor is in the DAG of a server.
DefaultConnects ==
    queue = {} /\ Default \in DOMAIN servers =>
        \A e \in servers[Default].pending :
            \A s \in DOMAIN servers : PrevOf(e) \notin servers[s].dag
=============================================================================
