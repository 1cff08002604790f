--------------------------- MODULE ClientServers ---------------------------
(***************************************************************************)
(* The servers of one client: the registry, the DAG of the active server   *)
(* with the stashed ones, the event_state mirror the views read, and what  *)
(* is on disk (crates/client/src/servers.rs, joining.rs, mutations.rs,     *)
(* listeners.rs, storage.rs and ClientHandle::new in lib.rs).              *)
(*                                                                         *)
(* Every step is one call to a state actor or one write to storage: that   *)
(* is where the tasks interleave and where a crash leaves things.  A DAG,  *)
(* a ServerState and a snapshot are abstracted to the server whose         *)
(* CreateServer event they start from, NoServer for an empty one: the      *)
(* Replication module is about what else they hold.                        *)
(***************************************************************************)
EXTENDS Naturals

CONSTANTS
    OwnServer,          \* the servers this client may create
    OtherServer,        \* the servers it may be invited to
    NoServer,
    UiTask,             \* the tasks of the user interface that may run at a time
    Listener            \* the task of the ops topic

ServerId == OwnServer \cup OtherServer
Task == UiTask \cup {Listener}

ASSUME ClientAssumption ==
    /\ NoServer \notin ServerId
    /\ OwnServer \cap OtherServer = {}
    /\ Listener \notin UiTask

VARIABLES
    registry,           \* ServerRegistry: servers
    active,             \* ServerRegistry: active_server
    managed,            \* DagState: managed
    stashed,            \* DagState: stashed, NoServer for no entry or an empty DAG
    eventState,         \* the event_state actor
    list,               \* on disk: server_list
    meta,               \* on disk: the ids with srv_ and srvkeys_ entries
    snapshot,           \* on disk: srv_state_ by id, {} for no entry
    task,               \* where each task is, with its local variables
    used,               \* the ids create_server has drawn
    genesis,            \* the servers whose CreateServer event has been signed
    returned            \* the servers whose creation or joining returned Ok and
                        \* which the user has not left

memoryVars == <<registry, active, managed, stashed, eventState>>
diskVars == <<list, meta, snapshot>>
networkVars == <<used, genesis>>
clientVars == <<memoryVars, diskVars, networkVars, task, returned>>

\* A task's step, and its local variables: the server the operation is about,
\* whether create_server called, what it read of active_server, managed and the
\* registry.
Idle == [at |-> "idle", server |-> NoServer, creating |-> FALSE,
         id |-> NoServer, state |-> NoServer, ids |-> {}]

At(t, step) == task[t].at = step

\* What was read is spent.
Goto(t, step) ==
    task' = [task EXCEPT ![t] = [Idle EXCEPT !.at = step, !.server = task[t].server,
                                             !.creating = task[t].creating]]

Return(t) == task' = [task EXCEPT ![t] = Idle]

ClientInit ==
    /\ registry = {} /\ active = NoServer
    /\ managed = NoServer /\ stashed = [s \in ServerId |-> NoServer]
    /\ eventState = NoServer
    /\ list = {} /\ meta = {} /\ snapshot = [s \in ServerId |-> {}]
    /\ task = [t \in Task |-> Idle]
    /\ used = {} /\ genesis = OtherServer /\ returned = {}

-----------------------------------------------------------------------------
(* create_server.                                                          *)

CreateServer(t, s) ==
    /\ At(t, "idle") /\ s \in OwnServer \ used
    /\ used' = used \cup {s}
    /\ registry' = registry \cup {s} /\ active' = s
    /\ task' = [task EXCEPT ![t] = [Idle EXCEPT !.at = "old", !.server = s, !.creating = TRUE]]
    /\ UNCHANGED <<managed, stashed, eventState, diskVars, genesis, returned>>

ReadOld(t) ==
    /\ At(t, "old")
    /\ task' = [task EXCEPT ![t].at = "stash", ![t].id = active]
    /\ UNCHANGED <<memoryVars, diskVars, networkVars, returned>>

Stash(t) ==
    /\ At(t, "stash")
    /\ IF task[t].id = NoServer THEN UNCHANGED <<managed, stashed>>
       ELSE /\ stashed' = [stashed EXCEPT ![task[t].id] = managed]
            /\ managed' = NoServer
    /\ Goto(t, "seed")
    /\ UNCHANGED <<registry, active, eventState, diskVars, networkVars, returned>>

\* seed_genesis: nothing happens to a DAG that has a genesis.
SeedGenesis(t) ==
    /\ At(t, "seed")
    /\ managed' = IF managed = NoServer THEN task[t].server ELSE managed
    /\ genesis' = genesis \cup {managed'}
    /\ task' = [task EXCEPT ![t].at = "seeded", ![t].state = managed']
    /\ UNCHANGED <<registry, active, stashed, eventState, diskVars, used, returned>>

Seeded(t) ==
    /\ At(t, "seeded")
    /\ eventState' = task[t].state
    /\ Goto(t, "build")
    /\ UNCHANGED <<registry, active, managed, stashed, diskVars, networkVars, returned>>

-----------------------------------------------------------------------------
(* Any mutation of the user: build_event, apply_event.                     *)

Post(t) ==
    /\ At(t, "idle")
    /\ Goto(t, "build")
    /\ UNCHANGED <<memoryVars, diskVars, networkVars, returned>>

\* create_and_insert fails on an empty DAG, and where the user lacks the permission,
\* which cannot be in a server of the user's own.
BuildEvent(t) ==
    /\ At(t, "build")
    /\ \/ managed # NoServer /\ Goto(t, "select")
       \/ managed \notin OwnServer /\ Return(t)
    /\ UNCHANGED <<memoryVars, diskVars, networkVars, returned>>

SelectState(t) ==
    /\ At(t, "select")
    /\ task' = [task EXCEPT ![t].at = "mirror", ![t].state = managed]
    /\ UNCHANGED <<memoryVars, diskVars, networkVars, returned>>

Mirror(t) ==
    /\ At(t, "mirror")
    /\ eventState' = task[t].state
    /\ Goto(t, "snapshot")
    /\ UNCHANGED <<registry, active, managed, stashed, diskVars, networkVars, returned>>

SelectSnapshot(t) ==
    /\ At(t, "snapshot")
    /\ task' = [task EXCEPT ![t].at = "active", ![t].state = managed]
    /\ UNCHANGED <<memoryVars, diskVars, networkVars, returned>>

SelectActive(t) ==
    /\ At(t, "active")
    /\ task' = [task EXCEPT ![t].at = "save", ![t].id = active]
    /\ UNCHANGED <<memoryVars, diskVars, networkVars, returned>>

SaveServerState(t) ==
    /\ At(t, "save")
    /\ snapshot' = IF task[t].id = NoServer THEN snapshot
                   ELSE [snapshot EXCEPT ![task[t].id] = {task[t].state}]
    /\ IF task[t].creating THEN Goto(t, "ids") ELSE Return(t)
    /\ UNCHANGED <<memoryVars, list, meta, networkVars, returned>>

-----------------------------------------------------------------------------
(* The end of create_server and accept_invite: the server goes to disk.    *)

SelectIds(t) ==
    /\ At(t, "ids")
    /\ task' = [task EXCEPT ![t].at = "list", ![t].ids = registry]
    /\ UNCHANGED <<memoryVars, diskVars, networkVars, returned>>

\* Mutant of SaveServerList: only the new server is written.
SaveServerListNew(t) ==
    /\ At(t, "list")
    /\ list' = {task[t].server}
    /\ Goto(t, "meta")
    /\ UNCHANGED <<memoryVars, meta, snapshot, networkVars, returned>>

SaveServerList(t) ==
    /\ At(t, "list")
    /\ list' = task[t].ids
    /\ Goto(t, "meta")
    /\ UNCHANGED <<memoryVars, meta, snapshot, networkVars, returned>>

SaveServerById(t) ==
    /\ At(t, "meta")
    /\ meta' = meta \cup {task[t].server}
    /\ returned' = returned \cup {task[t].server}
    /\ Return(t)
    /\ UNCHANGED <<memoryVars, list, snapshot, networkVars>>

-----------------------------------------------------------------------------
(* accept_invite, switch_server, leave_server.                             *)

\* The DAG is left as it is.
AcceptInvite(t, s) ==
    /\ At(t, "idle") /\ s \in OtherServer
    /\ registry' = registry \cup {s} /\ active' = s
    /\ task' = [task EXCEPT ![t] = [Idle EXCEPT !.at = "placeholder", !.server = s]]
    /\ UNCHANGED <<managed, stashed, eventState, diskVars, networkVars, returned>>

Placeholder(t) ==
    /\ At(t, "placeholder")
    /\ eventState' = task[t].server
    /\ Goto(t, "ids")
    /\ UNCHANGED <<registry, active, managed, stashed, diskVars, networkVars, returned>>

SwitchServer(t, s) ==
    /\ At(t, "idle") /\ s \in registry
    /\ task' = [task EXCEPT ![t] = [Idle EXCEPT !.at = "swap", !.server = s, !.id = active]]
    /\ UNCHANGED <<memoryVars, diskVars, networkVars, returned>>

Swap(t) ==
    /\ At(t, "swap")
    /\ LET s == task[t].server
           all == IF task[t].id = NoServer THEN stashed
                  ELSE [stashed EXCEPT ![task[t].id] = managed]
       IN  /\ managed' = all[s]
           /\ stashed' = [all EXCEPT ![s] = NoServer]
    /\ task' = [task EXCEPT ![t].at = "show", ![t].state = managed']
    /\ UNCHANGED <<registry, active, eventState, diskVars, networkVars, returned>>

Show(t) ==
    /\ At(t, "show")
    /\ eventState' = task[t].state
    /\ Goto(t, "activate")
    /\ UNCHANGED <<registry, active, managed, stashed, diskVars, networkVars, returned>>

Activate(t) ==
    /\ At(t, "activate")
    /\ active' = task[t].server
    /\ Return(t)
    /\ UNCHANGED <<registry, managed, stashed, eventState, diskVars, networkVars, returned>>

\* The disk is left as it is.
LeaveServer(t, s) ==
    /\ At(t, "idle") /\ s \in registry
    /\ registry' = registry \ {s}
    /\ active' \in IF active # s THEN {active}
                   ELSE IF registry' = {} THEN {NoServer} ELSE registry'
    /\ returned' = returned \ {s}
    /\ UNCHANGED <<managed, stashed, eventState, diskVars, task, networkVars>>

-----------------------------------------------------------------------------
(* The listener, and a restart.                                            *)

\* try_insert_event: an empty DAG takes whichever genesis comes first; the ops topic
\* carries the events of all servers.
TryInsertEvent(s) ==
    /\ At(Listener, "idle") /\ s \in genesis
    /\ managed' = IF managed = NoServer THEN s ELSE managed
    /\ Goto(Listener, "select")
    /\ UNCHANGED <<registry, active, stashed, eventState, diskVars, networkVars, returned>>

\* The process ends anywhere; ClientHandle::new of the next one, persist_servers
\* included.
Restart ==
    /\ registry' = list \cap meta
    /\ active' \in IF registry' = {} THEN {NoServer} ELSE registry'
    /\ eventState' \in IF active' = NoServer \/ snapshot[active'] = {} THEN {active'}
                       ELSE snapshot[active']
    /\ managed' = NoServer /\ stashed' = [s \in ServerId |-> NoServer]
    /\ list' = registry'
    /\ task' = [t \in Task |-> Idle]
    /\ UNCHANGED <<meta, snapshot, networkVars, returned>>

-----------------------------------------------------------------------------

UiStart(t) ==
    \/ \E s \in ServerId :
        CreateServer(t, s) \/ AcceptInvite(t, s) \/ SwitchServer(t, s) \/ LeaveServer(t, s)
    \/ Post(t)

Step(t) ==
    \/ ReadOld(t) \/ Stash(t) \/ SeedGenesis(t) \/ Seeded(t)
    \/ BuildEvent(t) \/ SelectState(t) \/ Mirror(t)
    \/ SelectSnapshot(t) \/ SelectActive(t) \/ SaveServerState(t)
    \/ SelectIds(t) \/ SaveServerList(t) \/ SaveServerById(t)
    \/ Placeholder(t) \/ Swap(t) \/ Show(t) \/ Activate(t)

ClientNext ==
    \/ \E t \in UiTask : UiStart(t)
    \/ \E s \in ServerId : TryInsertEvent(s)
    \/ \E t \in Task : Step(t)
    \/ Restart

ClientSpec == ClientInit /\ [][ClientNext]_clientVars

-----------------------------------------------------------------------------
(* Properties.                                                             *)

\* A server whose creation or joining has returned is there whenever the client runs,
\* wherever the process was ended in between: the list and the entry of the server
\* were on disk before the operation returned, and no later write of either one
\* lost it ("so the server survives a page reload", servers.rs).
SurvivesReload == returned \subseteq registry
=============================================================================
