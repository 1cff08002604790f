---------------------------- MODULE DerivedState ----------------------------
(***************************************************************************)
(* A StateActor, a DerivedActor computed from it and a subscriber of the   *)
(* derived value (crates/actor/src/state.rs, derived.rs): how every view   *)
(* of the client follows the state it shows.                               *)
(*                                                                         *)
(* Each actor runs the loop of mailbox.rs: handle a message, drain what    *)
(* else is queued, call idle().  A DerivedActor never awaits its source in *)
(* a handler: each Notify spawns a task that asks for a snapshot, applies  *)
(* the selector and sends the result back as UpdateCache.  On a            *)
(* single-threaded executor (WASM, spawn_local) tasks run in the order     *)
(* they are spawned and woken; on tokio's thread pool they do not.         *)
(***************************************************************************)
EXTENDS Integers, Sequences, FiniteSetsExt

CONSTANTS
    Derive,         \* the selector, a function of the source state
    Capacity,       \* mailbox capacity
    Ordered,        \* whether spawned tasks take their steps in order
    MaxMutations    \* bound: mutations of the source

ASSUME DerivedAssumption ==
    /\ Capacity \in Nat \ {0}
    /\ Ordered \in BOOLEAN
    /\ MaxMutations \in Nat
    /\ 0 .. MaxMutations \subseteq DOMAIN Derive

VARIABLES
    source,         \* StateActor.state: its version number
    sbox,           \* mailbox of the StateActor
    sdirty,         \* StateActor.dirty
    sawake,         \* the loop has handled a message since it last called idle()
    subscribed,     \* the DerivedActor is in StateActor.subscribers
    started,        \* DerivedActor::started has run
    dbox,           \* mailbox of the DerivedActor
    cached,         \* DerivedActor.cached
    ddirty,         \* DerivedActor.dirty
    dawake,         \* as sawake
    tasks,          \* spawned recomputations, oldest first
    spawned,        \* number of tasks spawned, to name them
    told,           \* a Notify is on its way to the subscriber
    shown,          \* the value the subscriber last read
    mutations,      \* mutations sent
    lost            \* a message of the DerivedActor was refused by a full mailbox

sourceVars == <<source, sbox, sdirty, sawake, subscribed>>
derivedVars == <<started, dbox, cached, ddirty, dawake>>
taskVars == <<tasks, spawned>>
readerVars == <<told, shown>>
vars == <<sourceVars, derivedVars, taskVars, readerVars, mutations, lost>>

None == "None"

Mutate == [type |-> "Mutate"]
Subscribe == [type |-> "Subscribe"]
Get(t) == [type |-> "Get", task |-> t]
Notify == [type |-> "Notify"]
UpdateCache(v) == [type |-> "UpdateCache", value |-> v]

Init ==
    /\ source = 0 /\ sbox = <<>> /\ sdirty = FALSE /\ sawake = FALSE /\ subscribed = FALSE
    /\ started = FALSE /\ dbox = <<>> /\ cached = None /\ ddirty = FALSE /\ dawake = FALSE
    /\ tasks = <<>> /\ spawned = 0
    /\ told = FALSE /\ shown = None
    /\ mutations = 0 /\ lost = FALSE

-----------------------------------------------------------------------------
(* Mailboxes.                                                              *)

\* runtime::Sender::send refuses a message when the channel is full.
Accepts(box) == Len(box) < Capacity

Sent(box, msg) == IF Accepts(box) THEN Append(box, msg) ELSE box

\* A task spawned by the DerivedActor.
Spawn ==
    /\ spawned' = spawned + 1
    /\ tasks' = Append(tasks, [id |-> spawned + 1, pc |-> "new"])

-----------------------------------------------------------------------------
(* The source.                                                             *)

\* A client of the source calls state::mutate.
SendMutate ==
    /\ mutations < MaxMutations
    /\ mutations' = mutations + 1
    /\ Accepts(sbox)
    /\ sbox' = Append(sbox, Mutate)
    /\ UNCHANGED <<source, sdirty, sawake, subscribed, derivedVars, taskVars, readerVars, lost>>

Replied(t) ==
    [i \in DOMAIN tasks |->
        IF tasks[i].id = t THEN [id |-> t, pc |-> "replied", value |-> Derive[source]]
                           ELSE tasks[i]]

\* One envelope of the StateActor's mailbox.
SourceHandle ==
    /\ sbox # <<>>
    /\ sbox' = Tail(sbox)
    /\ sawake' = TRUE
    /\ LET msg == Head(sbox) IN
       \/ /\ msg.type = "Mutate"
          /\ source' = source + 1
          /\ sdirty' = TRUE
          /\ UNCHANGED <<subscribed, tasks>>
       \/ /\ msg.type = "Subscribe"
          /\ subscribed' = TRUE
          /\ UNCHANGED <<source, sdirty, tasks>>
       \/ /\ msg.type = "Get"
          /\ tasks' = Replied(msg.task)
          /\ UNCHANGED <<source, sdirty, subscribed>>
    /\ UNCHANGED <<derivedVars, spawned, readerVars, mutations, lost>>

SourceIdleEarly ==
    /\ sawake
    /\ sbox = <<>>
    /\ sawake' = FALSE
    /\ sdirty' = FALSE
    /\ IF sdirty /\ subscribed /\ dbox = <<>>
         THEN dbox' = Append(dbox, Notify)
         ELSE UNCHANGED dbox
    /\ UNCHANGED <<source, sbox, subscribed, lost, started, cached, ddirty, dawake, taskVars,
                   readerVars, mutations>>

\* StateActor::idle: a subscriber that does not take the Notify is dropped.
SourceIdle ==
    /\ sawake
    /\ sbox = <<>>
    /\ sawake' = FALSE
    /\ sdirty' = FALSE
    /\ IF sdirty /\ subscribed
         THEN /\ dbox' = Sent(dbox, Notify)
              /\ subscribed' = Accepts(dbox)
              /\ lost' = (lost \/ ~Accepts(dbox))
         ELSE UNCHANGED <<dbox, subscribed, lost>>
    /\ UNCHANGED <<source, sbox, started, cached, ddirty, dawake, taskVars, readerVars, mutations>>

-----------------------------------------------------------------------------
(* The derived actor.                                                      *)

StartedUnsubscribed ==
    /\ ~started
    /\ started' = TRUE
    /\ Spawn
    /\ UNCHANGED <<sourceVars, lost, dbox, cached, ddirty, dawake, readerVars, mutations>>

\* DerivedActor::started: subscribe, then compute a first value.
Started ==
    /\ ~started
    /\ started' = TRUE
    /\ sbox' = Sent(sbox, Subscribe)
    /\ lost' = (lost \/ ~Accepts(sbox))
    /\ Spawn
    /\ UNCHANGED <<source, sdirty, sawake, subscribed, dbox, cached, ddirty, dawake,
                   readerVars, mutations>>

DerivedHandleOnce ==
    /\ started
    /\ dbox # <<>>
    /\ dbox' = Tail(dbox)
    /\ dawake' = TRUE
    /\ LET msg == Head(dbox) IN
       \/ /\ msg.type = "Notify"
          /\ Spawn
          /\ UNCHANGED <<cached, ddirty>>
       \/ /\ msg.type = "UpdateCache"
          /\ cached' = msg.value
          /\ ddirty' = (ddirty \/ cached = None)
          /\ UNCHANGED taskVars
    /\ UNCHANGED <<sourceVars, started, readerVars, mutations, lost>>

\* One envelope of the DerivedActor's mailbox.
DerivedHandle ==
    /\ started
    /\ dbox # <<>>
    /\ dbox' = Tail(dbox)
    /\ dawake' = TRUE
    /\ LET msg == Head(dbox) IN
       \/ /\ msg.type = "Notify"
          /\ Spawn
          /\ UNCHANGED <<cached, ddirty>>
       \/ /\ msg.type = "UpdateCache"
          /\ cached' = msg.value
          /\ ddirty' = (ddirty \/ cached # msg.value)
          /\ UNCHANGED taskVars
    /\ UNCHANGED <<sourceVars, started, readerVars, mutations, lost>>

\* DerivedActor::idle.
DerivedIdle ==
    /\ dawake
    /\ dbox = <<>>
    /\ dawake' = FALSE
    /\ ddirty' = FALSE
    /\ told' = (told \/ ddirty)
    /\ UNCHANGED <<sourceVars, started, dbox, cached, taskVars, shown, mutations, lost>>

-----------------------------------------------------------------------------
(* The recomputations.                                                     *)

\* The spawned tasks without the i-th, which has finished.
Finished(spawnedTasks, i) ==
    SubSeq(spawnedTasks, 1, i - 1) \o SubSeq(spawnedTasks, i + 1, Len(spawnedTasks))

\* sources.snapshot() asks the source; on a full mailbox the task panics.
TaskAsk(i) ==
    /\ tasks[i].pc = "new"
    /\ Ordered => \A j \in 1 .. i - 1 : tasks[j].pc # "new"
    /\ sbox' = Sent(sbox, Get(tasks[i].id))
    /\ lost' = (lost \/ ~Accepts(sbox))
    /\ tasks' = IF Accepts(sbox) THEN [tasks EXCEPT ![i].pc = "asked"] ELSE Finished(tasks, i)
    /\ UNCHANGED <<source, sdirty, sawake, subscribed, derivedVars, spawned, readerVars, mutations>>

\* The snapshot has come: addr.do_send(UpdateCache(value)).ok().
TaskReport(i) ==
    /\ tasks[i].pc = "replied"
    /\ Ordered => \A j \in 1 .. i - 1 : tasks[j].pc # "replied"
    /\ dbox' = Sent(dbox, UpdateCache(tasks[i].value))
    /\ lost' = (lost \/ ~Accepts(dbox))
    /\ tasks' = Finished(tasks, i)
    /\ UNCHANGED <<sourceVars, started, cached, ddirty, dawake, spawned, readerVars, mutations>>

\* The subscriber (a view of the web client) reads the value it was told of.
Read ==
    /\ told
    /\ told' = FALSE
    /\ shown' = cached
    /\ UNCHANGED <<sourceVars, derivedVars, taskVars, mutations, lost>>

-----------------------------------------------------------------------------
TaskStep == \E i \in DOMAIN tasks : TaskAsk(i) \/ TaskReport(i)

Next ==
    \/ SendMutate
    \/ SourceHandle
    \/ SourceIdle
    \/ Started
    \/ DerivedHandle
    \/ DerivedIdle
    \/ TaskStep
    \/ Read

\* The executor runs every actor and every task that can run.
Fairness ==
    /\ WF_vars(SourceHandle) /\ WF_vars(SourceIdle)
    /\ WF_vars(Started) /\ WF_vars(DerivedHandle) /\ WF_vars(DerivedIdle)
    /\ WF_vars(TaskStep) /\ WF_vars(Read)

Spec == Init /\ [][Next]_vars /\ Fairness

-----------------------------------------------------------------------------
(* Properties.                                                             *)

\* The values on their way to the cache: in a task that has its answer, in the mailbox.
Replies == {i \in DOMAIN tasks : tasks[i].pc = "replied"}
Updates == {i \in DOMAIN dbox : dbox[i].type = "UpdateCache"}

\* The last one to arrive; the cached value, if there is none.
Latest ==
    IF Replies # {} THEN tasks[Max(Replies)].value
    ELSE IF Updates # {} THEN dbox[Max(Updates)].value
    ELSE cached

\* The message is in the mailbox.
Waiting(box, msg) == \E i \in 1 .. Len(box) : box[i] = msg

\* A recomputation that will read the source again is due.
RecomputationDue ==
    \/ ~started
    \/ sdirty
    \/ Waiting(dbox, Notify)
    \/ \E i \in DOMAIN tasks : tasks[i].pc \in {"new", "asked"}

\* No wakeup is lost: unless a full mailbox refused a message, either the source
\* will be read again or the last value on its way (the cache, if there is none)
\* is derived from the source as it is.
NoLostWakeup ==
    lost \/ RecomputationDue \/ Latest = Derive[source]

\* The subscriber is told of every change: a cached value it does not show is
\* announced, or will be when the mailbox is empty.
ChangeIsAnnounced == shown = cached \/ told \/ (ddirty /\ dawake)

\* Once the derived actor has started and the source stops changing, the subscriber
\* comes to show the value derived from it, and goes on showing it, unless a full
\* mailbox refused a message.
ViewSettles == started ~> [](lost \/ shown = Derive[source])

\* "recomputes a derived value when sources change": with nothing left to run,
\* the cached value is derived from the source as it is.
QuietIsCurrent ==
    \/ lost \/ RecomputationDue \/ Replies # {} \/ Updates # {}
    \/ cached = Derive[source]
=============================================================================
