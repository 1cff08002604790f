----------------------------- MODULE ManagedDag -----------------------------
(***************************************************************************)
(* One replica's event DAG with its pending buffer: EventDag::insert of    *)
(* crates/state/src/dag.rs and ManagedDag::insert_and_apply of             *)
(* crates/state/src/managed.rs, over the buffer of PendingBuffer.          *)
(*                                                                         *)
(* An event is a record.  Its hash stands for its content, so two events   *)
(* never share one.  Events whose signature does not verify are refused    *)
(* before anything is read or written, and are left out.  insert_and_apply *)
(* is one call on &mut self: Receive is its first insertion, and Drain one *)
(* turn of its work-queue loop, so nothing is received while work remains. *)
(* `applied' is the order in which events reached the materialised state,  *)
(* and `received' a history variable for what was handed to the replica.   *)
(***************************************************************************)
EXTENDS PendingBuffer, Sequences

CONSTANTS
    MaxDeps,        \* MAX_EVENT_DEPS
    Honest          \* the authors who keep to one chain of well-formed events

Zero == 0           \* EventHash::ZERO

HashOf(es) == {e.hash : e \in es}

ASSUME HashAssumption ==
    /\ MaxDeps \in Nat
    /\ \A e \in Event :
        /\ e.hash \in Nat \ {Zero} /\ e.seq \in Nat \ {0}
        /\ e.deps \in SUBSET Nat /\ IsFiniteSet(e.deps)
        /\ e.kind \in {"CreateServer", "Vote", "Other"}
        /\ e.proposal \in Nat
    /\ \A e, f \in Event : e.hash = f.hash => e = f

CreatesServer(e) == e.kind = "CreateServer"

\* A vote names its proposal among its causal parents.
MissesProposal(e) ==
    e.kind = "Vote" /\ e.proposal \notin e.deps /\ e.prev # e.proposal

\* Honest authors sign what create_event and create_and_insert build, on one chain.
ASSUME HonestAssumption ==
    \A e \in Event : e.author \in Honest =>
        /\ Cardinality(e.deps) <= MaxDeps
        /\ ~ MissesProposal(e)
        /\ e.seq = 1 <=> e.prev = Zero
        /\ e.seq > 1 => \E f \in Event : /\ f.hash = e.prev /\ f.author = e.author
                                        /\ f.seq = e.seq - 1
        /\ \A f \in Event : f.author = e.author /\ f.seq = e.seq => f = e

VARIABLES
    events,         \* dag.events
    chains,         \* dag.chains
    heads,          \* dag.heads; no entry is Zero
    genesis_hash,   \* dag.genesis_hash; None is Zero
    synced,         \* synced
    work,           \* work_queue
    applied,        \* the events applied to `state', in order
    received        \* history: the events handed to insert_and_apply

pendingVars == <<entries, cached_count, per_author_count, missing_deps, arrivals>>
dagVars == <<events, chains, heads, genesis_hash>>
managedVars == <<pendingVars, now, dagVars, synced, work, applied, received>>

\* A queued event, with the call of resolve that queued it and its place there.
Queued == [round : Nat, id : Nat, event : Event]

\* The type invariant.
DagTypeOK ==
    /\ entries \in SUBSET Entry
    /\ arrivals \in Nat
    /\ events \in SUBSET Event
    /\ chains \in [Author -> Seq(Nat \ {Zero})]
    /\ heads \in [Author -> Nat]
    /\ genesis_hash \in HashOf(events) \cup {Zero}
    /\ synced \in BOOLEAN
    /\ work \in SUBSET Queued
    /\ applied \in Seq(events)
    /\ received \in SUBSET Event

\* ManagedDag::empty: a replica that joins; ManagedDag::new is this followed by
\* the reception of its own genesis event.
ManagedInit ==
    /\ BufferInit
    /\ events = {}
    /\ chains = [a \in Author |-> <<>>]
    /\ heads = [a \in Author |-> Zero]
    /\ genesis_hash = Zero
    /\ synced = FALSE
    /\ work = {}
    /\ applied = <<>>
    /\ received = {}

-----------------------------------------------------------------------------
(* EventDag::insert.                                                       *)

\* latest_seq(author) + 1.
ExpectedSeq(a) == Len(chains[a]) + 1

\* Mutant of Verdict: the predecessor is not compared with the head.
VerdictBySeq(e) ==
    IF Cardinality(e.deps) > MaxDeps THEN "DepsTooLong"
    ELSE IF e.hash \in HashOf(events) THEN "Duplicate"
    ELSE IF genesis_hash = Zero /\ ~ CreatesServer(e) THEN "NotGenesis"
    ELSE IF genesis_hash = Zero /\ (e.seq # 1 \/ e.prev # Zero) THEN "SeqGap"
    ELSE IF genesis_hash # Zero /\ CreatesServer(e) THEN "DuplicateGenesis"
    ELSE IF e.seq # ExpectedSeq(e.author) THEN "SeqGap"
    ELSE IF MissesProposal(e) THEN "MissingGovernanceDep"
    ELSE "Ok"

\* The checks of insert, in order: the error returned, or "Ok".
Verdict(e) ==
    IF Cardinality(e.deps) > MaxDeps THEN "DepsTooLong"
    ELSE IF e.hash \in HashOf(events) THEN "Duplicate"
    ELSE IF genesis_hash = Zero /\ ~ CreatesServer(e) THEN "NotGenesis"
    ELSE IF genesis_hash = Zero /\ (e.seq # 1 \/ e.prev # Zero) THEN "SeqGap"
    ELSE IF genesis_hash # Zero /\ CreatesServer(e) THEN "DuplicateGenesis"
    ELSE IF e.seq # ExpectedSeq(e.author) THEN "SeqGap"
    ELSE IF e.prev # heads[e.author] THEN "PrevMismatch"
    ELSE IF MissesProposal(e) THEN "MissingGovernanceDep"
    ELSE "Ok"

\* Mutant of Insert: an author's head is set with their first event only.
InsertFirstHead(e) ==
    /\ events' = events \cup {e}
    /\ chains' = [chains EXCEPT ![e.author] = Append(@, e.hash)]
    /\ heads' = [heads EXCEPT ![e.author] = IF @ = Zero THEN e.hash ELSE @]
    /\ genesis_hash' = IF CreatesServer(e) THEN e.hash ELSE genesis_hash

\* What a successful insert writes.
Insert(e) ==
    /\ events' = events \cup {e}
    /\ chains' = [chains EXCEPT ![e.author] = Append(@, e.hash)]
    /\ heads' = [heads EXCEPT ![e.author] = e.hash]
    /\ genesis_hash' = IF CreatesServer(e) THEN e.hash ELSE genesis_hash

-----------------------------------------------------------------------------
(* ManagedDag::insert_and_apply.                                           *)

\* apply_incremental; the genesis event rebuilds the state instead.
Apply(e) == applied' = IF CreatesServer(e) THEN <<e>> ELSE Append(applied, e)

\* Mutant of Released: the events that waited for any first event stay buffered.
ReleasedByHash(e) == Waiting(entries, e.hash)

\* The entries that `e' releases: resolve(e.hash), and resolve(ZERO) after genesis.
Released(e) ==
    Waiting(entries, e.hash)
        \cup (IF CreatesServer(e) THEN Waiting(entries, Zero) ELSE {})

\* The common part of the first insertion and of a turn of the loop: insert, apply,
\* resolve, and queue behind `left'.
InsertAndResolve(e, left) ==
    /\ Insert(e)
    /\ Apply(e)
    /\ Remove(Released(e))
    /\ missing_deps' = missing_deps \ ({e.hash} \cup (IF CreatesServer(e) THEN {Zero} ELSE {}))
    /\ work' = left \cup {[round |-> Len(applied), id |-> x.id, event |-> x.event]
                             : x \in Released(e)}
    /\ UNCHANGED arrivals

\* An event that is not inserted: it is buffered when it may come early, and
\* otherwise dropped (Duplicate is a success, the rest are errors).
ReceiveOther(e) ==
    /\ \/ /\ Verdict(e) \in {"SeqGap", "NotGenesis"}
          /\ arrivals < MaxArrivals
          /\ InsertEntry(entries, cached_count, per_author_count, e, Untimed)
          /\ UNCHANGED missing_deps
       \/ /\ Verdict(e) \notin {"Ok", "SeqGap", "NotGenesis"}
          /\ UNCHANGED pendingVars
    /\ UNCHANGED <<dagVars, synced, work, applied>>

ReceiveInserted(e) ==
    /\ Verdict(e) = "Ok"
    /\ InsertAndResolve(e, {})
    /\ synced' = (synced \/ CreatesServer(e))

Receive(e) ==
    /\ work = {}
    /\ ReceiveInserted(e) \/ ReceiveOther(e)
    /\ received' = received \cup {e}
    /\ UNCHANGED now

\* The queue's order: by call of resolve, the events that waited for ZERO last.
Before(x, y) ==
    \/ x.round < y.round
    \/ x.round = y.round /\ x.event.prev # Zero /\ y.event.prev = Zero
    \/ x.round = y.round /\ (x.event.prev = Zero <=> y.event.prev = Zero) /\ x.id < y.id

\* Mutant of Dequeue: the queue's front is read and not taken.
DequeuePeek(x) ==
    \/ /\ Verdict(x.event) = "Ok"
       /\ InsertAndResolve(x.event, work)
    \/ /\ Verdict(x.event) # "Ok"
       /\ UNCHANGED <<pendingVars, dagVars, work, applied>>

\* Mutant of Dequeue: what the DAG refuses still reaches the state.
DequeueApplying(x) ==
    \/ /\ Verdict(x.event) = "Ok"
       /\ InsertAndResolve(x.event, work \ {x})
    \/ /\ Verdict(x.event) # "Ok"
       /\ work' = work \ {x}
       /\ Apply(x.event)
       /\ UNCHANGED <<pendingVars, dagVars>>

\* One turn of the loop: an event the DAG refuses is skipped.
Dequeue(x) ==
    \/ /\ Verdict(x.event) = "Ok"
       /\ InsertAndResolve(x.event, work \ {x})
    \/ /\ Verdict(x.event) # "Ok"
       /\ work' = work \ {x}
       /\ UNCHANGED <<pendingVars, dagVars, applied>>

Drain ==
    /\ \E x \in work : (\A y \in work \ {x} : Before(x, y)) /\ Dequeue(x)
    /\ UNCHANGED <<synced, received, now>>

ManagedNext ==
    \/ \E e \in Event : Receive(e)
    \/ Drain

\* The loop runs to its end, and every event is handed over again and again until
\* it is there: peers answer heads summaries with what the replica lacks.
ManagedSpec ==
    /\ ManagedInit /\ [][ManagedNext]_managedVars
    /\ WF_managedVars(Drain)
    /\ \A e \in Event : WF_managedVars(Receive(e))

-----------------------------------------------------------------------------
(* Properties.                                                             *)

\* The three indexes of the DAG agree: a chain lists one event per sequence number,
\* each on top of the previous one, the head is its last element, and every event
\* is in its author's chain.
ChainsAgree ==
    /\ \A a \in Author :
        /\ heads[a] = IF chains[a] = <<>> THEN Zero ELSE chains[a][Len(chains[a])]
        /\ \A i \in 1 .. Len(chains[a]) :
            \E e \in events :
                /\ e.hash = chains[a][i] /\ e.author = a /\ e.seq = i
                /\ e.prev = IF i = 1 THEN Zero ELSE chains[a][i - 1]
    /\ \A e \in events : e.seq \in 1 .. Len(chains[e.author])
                         /\ chains[e.author][e.seq] = e.hash

\* The state has every event of the DAG applied to it, once, and nothing else: the
\* two cannot diverge, not even between two turns of the loop.
AppliedIsDag ==
    /\ \A e \in events : \E i \in 1 .. Len(applied) : applied[i] = e
    /\ \A i, j \in 1 .. Len(applied) : applied[i] = applied[j] => i = j

\* Genesis is applied first, and an event only after its predecessor.
PredecessorFirst ==
    \A i \in 1 .. Len(applied) :
        /\ i = 1 <=> applied[i].hash = genesis_hash
        /\ \/ applied[i].prev = Zero
           \/ \E j \in 1 .. i - 1 : applied[j].hash = applied[i].prev

\* No event that the DAG would now accept is left in the buffer: whatever released
\* it is noticed, in whatever order events come.
NoReadyEventWaits == \A x \in entries : Verdict(x.event) # "Ok"

\* An event of an honest author is not lost: once received it is in the DAG, or in
\* the buffer, or about to be taken from the queue, unless a limit of the buffer
\* was reached.
NoEventLost ==
    arrivals < PerAuthorCap /\ arrivals <= MaxEntries =>
        \A e \in received :
            e.author \in Honest /\ ~ CreatesServer(e) =>
                \/ e \in events
                \/ \E x \in entries : x.event = e
                \/ \E x \in work : x.event = e

\* A replica is a log of chains: whatever it is handed, in whatever order, one
\* call of insert_and_apply applies events that each continue their author's chain.
Log == INSTANCE ReplicaLog WITH log <- applied

ImplementsLog == Log!Spec

\* Once a replica has been handed anything, every event of an honest author reaches
\* the DAG, however often the buffer evicts it on the way.
HonestArrive == (received # {}) ~> (\A e \in Event : e.author \in Honest => e \in events)
=============================================================================
