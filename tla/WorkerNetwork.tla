--------------------------- MODULE WorkerNetwork ---------------------------
(***************************************************************************)
(* The actors of a worker node (crates/worker/src/actors) and the two      *)
(* gossip topics between workers: events come on SERVER_OPS, and workers   *)
(* ask each other on the WORKERS topic.  Each worker runs a network actor, *)
(* fed by one draining task per topic, a state actor that owns the role,   *)
(* and a sync actor that asks at every interval.                           *)
(*                                                                         *)
(* One server with one author: the event n is the nth of the chain.  The   *)
(* role is what ReplayWorker and EventStore are about; here it keeps what  *)
(* arrived, and serves what hangs together of it, one event to a batch.    *)
(* Gossip delivers a broadcast to the other workers, or loses it; from     *)
(* there the draining task puts it into the network actor's mailbox (it    *)
(* waits for the state actor to be ready, and nothing comes before that).  *)
(***************************************************************************)
EXTENDS Naturals, Sequences, FiniteSets

CONSTANTS
    Worker,
    MaxSigned,          \* bound: the events clients sign
    NetworkCapacity,    \* the mailbox of a network actor
    StateCapacity,      \* the mailbox of a state actor
    MaxMissed           \* bound: the deliveries gossip loses

VARIABLES
    signed,     \* how many events clients have signed
    draining,   \* per topic: the workers whose draining task runs
    mailbox,    \* the network actors' mailboxes
    serving,    \* where a network actor is in the handler of a Sync request
    marked,     \* marked_neighbors
    inbox,      \* the state actors' mailboxes
    arrived,    \* the events each role was given
    tick,       \* the sync actor's handler: Nothing, or what it asked or was told
    missed      \* how many deliveries were lost

workerVars == <<signed, draining, mailbox, serving, marked, inbox, arrived, tick, missed>>

Topics == {"WORKERS", "SERVER_OPS"}
Nothing == [kind |-> "Nothing"]

\* The length of the chain a role has, its HeadsSummary.
Heads(w) == Cardinality({n \in arrived[w] : 1 .. n \subseteq arrived[w]})

WorkerInit ==
    /\ signed = 0 /\ missed = 0
    /\ draining = [t \in Topics |-> Worker]
    /\ mailbox = [w \in Worker |-> << >>] /\ inbox = [w \in Worker |-> << >>]
    /\ serving = [w \in Worker |-> Nothing] /\ marked = [w \in Worker |-> {}]
    /\ arrived = [w \in Worker |-> {}] /\ tick = [w \in Worker |-> Nothing]

-----------------------------------------------------------------------------
(* Gossip.                                                                 *)

\* A message to the workers `to'.  A draining task whose mailbox is full ends.
Broadcast(t, to, m) ==
    \E lost \in SUBSET to :
        LET got == (to \ lost) \cap draining[t]
            full == {w \in got : Len(mailbox[w]) >= NetworkCapacity}
        IN  /\ missed + Cardinality(lost) <= MaxMissed
            /\ missed' = missed + Cardinality(lost)
            /\ mailbox' = [w \in Worker |->
                    IF w \in got \ full THEN Append(mailbox[w], m) ELSE mailbox[w]]
            /\ draining' = [draining EXCEPT ![t] = @ \ full]

\* A client signs the next event and broadcasts it.
Sign ==
    /\ signed < MaxSigned
    /\ signed' = signed + 1
    /\ Broadcast("SERVER_OPS", Worker, [kind |-> "Event", seq |-> signed + 1])
    /\ UNCHANGED <<serving, marked, inbox, arrived, tick>>

-----------------------------------------------------------------------------
(* The network actor.                                                      *)

\* The message is sent to the state actor; FALSE when its mailbox is full.
Fits(w) == Len(inbox[w]) < StateCapacity

\* Handler<ServerOpsEventMsg>: an event is dropped when the state actor's mailbox is full.
OpsEvent(w, m) ==
    /\ m.kind = "Event"
    /\ inbox' = IF Fits(w) THEN [inbox EXCEPT ![w] = Append(@, m)] ELSE inbox
    /\ UNCHANGED <<serving, marked>>

\* Handler<GossipEventMsg> for Sync: the requester is recorded as marked, and the
\* state actor is asked.
SyncRequest(w, m) ==
    /\ m.kind = "Request"
    /\ marked' = [marked EXCEPT ![w] = @ \cup {m.from}]
    /\ \/ /\ Fits(w)
          /\ inbox' = [inbox EXCEPT ![w] = Append(@, m)]
          /\ serving' = [serving EXCEPT ![w] = [kind |-> "Asked", mark |-> m.from \notin marked[w]]]
       \/ ~ Fits(w) /\ UNCHANGED <<inbox, serving>>

\* parse_worker_message and parse_server_message ignore all else: the Response of
\* another worker, and its HistorySyncComplete marker.
Ignored(m) == m.kind \in {"Response", "HistorySyncComplete"} /\ UNCHANGED <<inbox, serving, marked>>

NetworkHandle(w) ==
    /\ mailbox[w] # << >> /\ serving[w] = Nothing
    /\ LET m == Head(mailbox[w]) IN OpsEvent(w, m) \/ SyncRequest(w, m) \/ Ignored(m)
    /\ mailbox' = [mailbox EXCEPT ![w] = Tail(@)]
    /\ UNCHANGED <<signed, draining, arrived, tick, missed>>

\* The answer is there and is broadcast.
Reply(w) ==
    /\ serving[w].kind = "Answered"
    /\ Broadcast("WORKERS", Worker \ {w}, [kind |-> "Response", events |-> serving[w].events])
    /\ serving' = [serving EXCEPT ![w] = IF @.mark THEN [kind |-> "Marking"] ELSE Nothing]
    /\ UNCHANGED <<signed, marked, inbox, arrived, tick>>

\* So is the marker, for a requester that had none yet.
Mark(w) ==
    /\ serving[w].kind = "Marking"
    /\ Broadcast("SERVER_OPS", Worker \ {w}, [kind |-> "HistorySyncComplete"])
    /\ serving' = [serving EXCEPT ![w] = Nothing]
    /\ UNCHANGED <<signed, marked, inbox, arrived, tick>>

-----------------------------------------------------------------------------
(* The state actor.                                                        *)

\* The first batch of what the role has beyond the requester's heads.
Batch(w, heads) == {n \in {heads + 1} : n <= Heads(w)}

StateHandle(w) ==
    /\ inbox[w] # << >>
    /\ LET m == Head(inbox[w]) IN
        \/ /\ m.kind = "Event"
           /\ arrived' = [arrived EXCEPT ![w] = @ \cup {m.seq}]
           /\ UNCHANGED <<serving, tick>>
        \/ /\ m.kind = "Request"
           /\ serving' = [serving EXCEPT ![w] = [kind |-> "Answered", mark |-> @.mark,
                                                 events |-> Batch(w, m.heads)]]
           /\ UNCHANGED <<arrived, tick>>
        \/ /\ m.kind = "GetHeadsSummaries"
           /\ tick' = [tick EXCEPT ![w] = [kind |-> "Told", heads |-> Heads(w)]]
           /\ UNCHANGED <<arrived, serving>>
    /\ inbox' = [inbox EXCEPT ![w] = Tail(@)]
    /\ UNCHANGED <<signed, draining, mailbox, marked, missed>>

-----------------------------------------------------------------------------
(* The sync actor.                                                         *)

\* Handler<SyncTick>; a full mailbox of the state actor skips the interval.
SyncTick(w) ==
    /\ tick[w] = Nothing /\ Fits(w)
    /\ inbox' = [inbox EXCEPT ![w] = Append(@, [kind |-> "GetHeadsSummaries"])]
    /\ tick' = [tick EXCEPT ![w] = [kind |-> "Asked"]]
    /\ UNCHANGED <<signed, draining, mailbox, serving, marked, arrived, missed>>

\* A request for the server, if the worker knows the server.
SyncBroadcast(w) ==
    /\ tick[w].kind = "Told"
    /\ \/ /\ tick[w].heads > 0
          /\ Broadcast("WORKERS", Worker \ {w},
                       [kind |-> "Request", from |-> w, heads |-> tick[w].heads])
       \/ tick[w].heads = 0 /\ UNCHANGED <<mailbox, draining, missed>>
    /\ tick' = [tick EXCEPT ![w] = Nothing]
    /\ UNCHANGED <<signed, serving, marked, inbox, arrived>>

WorkerNext ==
    \/ Sign
    \/ \E w \in Worker :
        NetworkHandle(w) \/ Reply(w) \/ Mark(w) \/ StateHandle(w) \/ SyncTick(w) \/ SyncBroadcast(w)

\* Tasks run, and the interval of the sync actor comes round.
WorkerFairness ==
    \A w \in Worker :
        /\ WF_workerVars(NetworkHandle(w) \/ Reply(w) \/ Mark(w))
        /\ WF_workerVars(StateHandle(w))
        /\ SF_workerVars(SyncTick(w)) /\ WF_workerVars(SyncBroadcast(w))

WorkerSpec == WorkerInit /\ [][WorkerNext]_workerVars /\ WorkerFairness

-----------------------------------------------------------------------------
\* "Willow's active-sync loop (workers broadcast `SyncRequest` to backfill anything gossip
\* dropped)", the design of the worker nodes: of a server that every worker knows, what
\* one worker has reaches the others, unless a draining task has ended.
WorkersConverge ==
    \A n \in 1 .. MaxSigned :
        (\A w \in Worker : 1 \in arrived[w]) /\ (\E w \in Worker : n <= Heads(w))
            ~> (\A w \in Worker : n <= Heads(w)) \/ (\E t \in Topics : draining[t] # Worker)
=============================================================================
