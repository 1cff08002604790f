---------------------------- MODULE ClientProofs ----------------------------
(* Proofs about ClientServers, Joining and HistorySync.  For the servers of *)
(* a client: any servers and any number of steps, crashes and restarts, as  *)
(* long as it runs one operation of the user interface at a time: with two, *)
(* the list that one of them read before the other's server was added is    *)
(* written last and loses it.  For joining: any links, servers, joiners and *)
(* number of messages lost and of restarts.  For the history: any authors,  *)
(* chains, providers and batch size.                                        *)
EXTENDS ClientServers, Joining, HistorySync, FiniteSetTheorems, SequenceTheorems,
        WellFoundedInduction, TLAPS

-----------------------------------------------------------------------------
(* The servers (ClientServers).                                            *)

\* One operation of the user interface at a time.
OneTask == \A t, u \in UiTask : t = u

Maybe == ServerId \cup {NoServer}

UiOnly == {"old", "stash", "seed", "seeded", "build", "ids", "list", "meta",
           "placeholder", "swap", "show", "activate"}
ListenerStep == {"idle", "select", "mirror", "snapshot", "active", "save"}

Locals == [at : UiOnly \cup ListenerStep, server : Maybe, creating : BOOLEAN,
           id : Maybe, state : Maybe, ids : SUBSET ServerId]

MemoryType ==
    /\ registry \in SUBSET ServerId /\ list \in SUBSET ServerId
    /\ active \in Maybe /\ managed \in Maybe /\ stashed \in [ServerId -> Maybe]

\* What the local variables r of an operation guarantee: the server it adds is in the
\* registry; the list it is about to write has that server and all that returned
\* before; and the list is on disk before the server's own entry.
Fits(r) ==
    /\ r.creating \/ r.at \in {"placeholder", "ids", "list", "meta"} => r.server \in registry
    /\ r.at = "list" => returned \cup {r.server} \subseteq r.ids
    /\ r.at = "meta" => r.server \in list
    /\ r.at = "swap" => r.server \in ServerId
    /\ r.at = "idle" => ~ r.creating

\* The listener's task adds no server.
ListenerFits(r) == r.at \in ListenerStep /\ ~ r.creating

Kept == returned \subseteq registry /\ returned \subseteq list /\ returned \subseteq meta

ClientInvariant ==
    /\ MemoryType
    /\ task \in [Task -> Locals]
    /\ Kept
    /\ ListenerFits(task[Listener])
    /\ \A t \in UiTask : Fits(task[t])

-----------------------------------------------------------------------------
(* A step of one task.                                                     *)

\* A step of the user interface's task leaves the listener's as it is, and there is no
\* other.
LEMMA UiTaskStep ==
    ASSUME ClientInvariant, OneTask, NEW t \in UiTask, NEW r \in Locals,
           task' = [task EXCEPT ![t] = r], Fits(r)', MemoryType', Kept'
    PROVE  ClientInvariant'
  <1>1. t \in Task /\ Listener \in Task /\ t # Listener
    BY ClientAssumption, Zenon DEF Task
  <1>2. task' \in [Task -> Locals] /\ task'[t] = r /\ task'[Listener] = task[Listener]
    BY <1>1, Zenon DEF ClientInvariant
  <1>3. \A u \in UiTask : u = t
    BY Zenon DEF OneTask
  <1>4. \A u \in UiTask : Fits(task[u])'
    BY <1>2, <1>3, Zenon DEF Fits
  <1>5. ListenerFits(task[Listener])'
    BY <1>2, Zenon DEF ClientInvariant, ListenerFits
  <1> QED
    BY <1>2, <1>4, <1>5, Zenon DEF ClientInvariant

\* A step of the listener's task leaves the servers alone.
LEMMA ListenerTaskStep ==
    ASSUME ClientInvariant, NEW r \in Locals, ListenerFits(r),
           task' = [task EXCEPT ![Listener] = r], MemoryType',
           UNCHANGED <<registry, list, meta, returned>>
    PROVE  ClientInvariant'
  <1>1. Listener \in Task /\ \A t \in UiTask : t \in Task /\ t # Listener
    BY ClientAssumption, Zenon DEF Task
  <1>2. task' \in [Task -> Locals] /\ task'[Listener] = r /\ \A t \in UiTask : task'[t] = task[t]
    BY <1>1, Zenon DEF ClientInvariant
  <1>3. \A t \in UiTask : Fits(task[t])'
    BY <1>2 DEF ClientInvariant, Fits
  <1>4. Kept'
    BY Zenon DEF ClientInvariant, Kept
  <1>5. ListenerFits(task[Listener])'
    BY <1>2, Zenon DEF ListenerFits
  <1> QED
    BY <1>2, <1>3, <1>4, <1>5, Zenon DEF ClientInvariant

\* The local variables of a task that goes on.
LEMMA GotoLocals ==
    ASSUME ClientInvariant, NEW t \in Task, NEW step \in UiOnly \cup ListenerStep, Goto(t, step)
    PROVE  \E r \in Locals :
            /\ task' = [task EXCEPT ![t] = r]
            /\ r.at = step /\ r.server = task[t].server /\ r.creating = task[t].creating
  <1> DEFINE r == [Idle EXCEPT !.at = step, !.server = task[t].server,
                               !.creating = task[t].creating]
  <1>1. task[t] \in Locals
    BY Zenon DEF ClientInvariant
  <1>2. r \in Locals /\ r.at = step /\ r.server = task[t].server /\ r.creating = task[t].creating
    BY <1>1, Zenon DEF Idle, Locals, Maybe
  <1>3. task' = [task EXCEPT ![t] = r]
    BY Zenon DEF Goto
  <1> QED
    BY <1>2, <1>3, Zenon

\* An idle task's local variables.
LEMMA IdleLocals ==
    /\ Idle \in Locals /\ Idle.at = "idle" /\ ~ Idle.creating
  BY Zenon DEF Idle, Locals, Maybe, ListenerStep

-----------------------------------------------------------------------------
(* The steps of an operation.                                              *)

\* A task of the user interface goes on with what it has, and nothing that the
\* invariant is about changes but the DAGs and active_server.
LEMMA UiGoes ==
    ASSUME ClientInvariant, OneTask, NEW t \in UiTask, NEW r \in Locals,
           task' = [task EXCEPT ![t] = r], MemoryType',
           UNCHANGED <<registry, list, meta, returned>>,
           r.server = task[t].server, r.creating = task[t].creating,
           r.at \notin {"idle", "placeholder", "ids", "list", "meta", "swap"}
    PROVE  ClientInvariant'
  <1>1. Fits(task[t])
    BY Zenon DEF ClientInvariant
  <1>2. Fits(r)'
    BY <1>1, Zenon DEF Fits
  <1>3. Kept'
    BY Zenon DEF ClientInvariant, Kept
  <1> QED
    BY <1>2, <1>3, UiTaskStep, Zenon

\* A task of the user interface returns.
LEMMA UiReturns ==
    ASSUME ClientInvariant, OneTask, NEW t \in UiTask, Return(t), MemoryType', Kept'
    PROVE  ClientInvariant'
  <1>1. Fits(Idle)'
    BY IdleLocals, Zenon DEF Fits
  <1> QED
    BY <1>1, IdleLocals, UiTaskStep, Zenon DEF Return

\* create_server up to the first event of the new server.
LEMMA CreatingSteps ==
    ASSUME ClientInvariant, OneTask, NEW t \in UiTask,
           \/ \E s \in ServerId : CreateServer(t, s)
           \/ ReadOld(t) \/ Stash(t) \/ SeedGenesis(t) \/ Seeded(t)
    PROVE  ClientInvariant'
  <1>1. t \in Task /\ task[t] \in Locals /\ Fits(task[t]) /\ MemoryType
    BY Zenon DEF ClientInvariant, Task
  <1> USE DEF UiOnly, ListenerStep
  <1>2. ASSUME NEW s \in ServerId, CreateServer(t, s) PROVE ClientInvariant'
    <2>1. PICK r \in Locals :
            task' = [task EXCEPT ![t] = r] /\ r.server = s /\ r.at = "old"
      <3> DEFINE r == [Idle EXCEPT !.at = "old", !.server = s, !.creating = TRUE]
      <3>1. r \in Locals /\ r.server = s /\ r.at = "old"
        BY Zenon DEF Idle, Locals, Maybe
      <3> QED
        BY <1>2, <3>1, Zenon DEF CreateServer
    <2>2. MemoryType'
      BY <1>1, <1>2, Zenon DEF CreateServer, MemoryType, diskVars, Maybe
    <2>3. Fits(r)'
      BY <1>2, <2>1, Zenon DEF CreateServer, Fits
    <2>4. Kept'
      BY <1>2, Zenon DEF CreateServer, diskVars, ClientInvariant, Kept
    <2> QED
      BY <2>1, <2>2, <2>3, <2>4, UiTaskStep, Zenon
  <1>3. CASE ReadOld(t)
    <2> DEFINE r == [task[t] EXCEPT !.at = "stash", !.id = active]
    <2>1. r \in Locals /\ r.server = task[t].server /\ r.creating = task[t].creating
          /\ r.at = "stash"
      BY <1>1, Zenon DEF Locals, MemoryType
    <2>2. task' = [task EXCEPT ![t] = r]
      BY <1>1, <1>3, Zenon DEF ReadOld, ClientInvariant
    <2> QED
      BY <1>1, <1>3, <2>1, <2>2, UiGoes, Zenon DEF ReadOld, memoryVars, diskVars, MemoryType
  <1>4. CASE Stash(t)
    <2>1. MemoryType'
      BY <1>1, <1>4, Zenon DEF Stash, MemoryType, diskVars, Maybe, Locals
    <2>2. Goto(t, "seed") /\ UNCHANGED <<registry, list, meta, returned>>
      BY <1>4, Zenon DEF Stash, diskVars
    <2>3. PICK r \in Locals :
            /\ task' = [task EXCEPT ![t] = r]
            /\ r.at = "seed" /\ r.server = task[t].server /\ r.creating = task[t].creating
      BY <1>1, <2>2, GotoLocals
    <2> QED
      BY <2>1, <2>2, <2>3, UiGoes, Zenon
  <1>5. CASE SeedGenesis(t)
    <2> DEFINE r == [task[t] EXCEPT !.at = "seeded", !.state = managed']
    <2>1. managed' \in Maybe /\ MemoryType'
      BY <1>1, <1>5, Zenon DEF SeedGenesis, MemoryType, diskVars, Locals
    <2>2. r \in Locals /\ r.server = task[t].server /\ r.creating = task[t].creating
          /\ r.at = "seeded"
      BY <1>1, <2>1, Zenon DEF Locals
    <2>3. task' = [task EXCEPT ![t] = r]
      BY <1>1, <1>5, Zenon DEF SeedGenesis, ClientInvariant
    <2> QED
      BY <1>5, <2>1, <2>2, <2>3, UiGoes, Zenon DEF SeedGenesis, diskVars
  <1>6. CASE Seeded(t)
    <2>1. Goto(t, "build") /\ MemoryType' /\ UNCHANGED <<registry, list, meta, returned>>
      BY <1>1, <1>6, Zenon DEF Seeded, MemoryType, diskVars
    <2>2. PICK r \in Locals :
            /\ task' = [task EXCEPT ![t] = r]
            /\ r.at = "build" /\ r.server = task[t].server /\ r.creating = task[t].creating
      BY <1>1, <2>1, GotoLocals
    <2> QED
      BY <2>1, <2>2, UiGoes, Zenon
  <1> QED
    BY <1>2, <1>3, <1>4, <1>5, <1>6, Zenon

\* The reads and writes of build_event and apply_event: which record the task goes on
\* with.
LEMMA PostingLocals ==
    ASSUME ClientInvariant, NEW t \in Task,
           SelectState(t) \/ Mirror(t) \/ SelectSnapshot(t) \/ SelectActive(t)
    PROVE  /\ MemoryType' /\ UNCHANGED <<registry, list, meta, returned>>
           /\ \E r \in Locals :
                /\ task' = [task EXCEPT ![t] = r]
                /\ r.server = task[t].server /\ r.creating = task[t].creating
                /\ r.at \in {"mirror", "snapshot", "active", "save"}
  <1>1. task[t] \in Locals /\ MemoryType /\ task \in [Task -> Locals]
    BY Zenon DEF ClientInvariant
  <1> USE DEF UiOnly, ListenerStep
  <1>2. ASSUME NEW step \in {"mirror", "active", "save"}, NEW id \in Maybe, NEW st \in Maybe,
               task' = [task EXCEPT ![t] = [task[t] EXCEPT !.at = step, !.id = id, !.state = st]]
        PROVE  \E r \in Locals :
                /\ task' = [task EXCEPT ![t] = r]
                /\ r.server = task[t].server /\ r.creating = task[t].creating
                /\ r.at \in {"mirror", "snapshot", "active", "save"}
    <2> DEFINE r == [task[t] EXCEPT !.at = step, !.id = id, !.state = st]
    <2>1. r \in Locals /\ r.server = task[t].server /\ r.creating = task[t].creating /\ r.at = step
      BY <1>1, Zenon DEF Locals
    <2> QED
      BY <1>2, <2>1, Zenon
  <1>3. task[t].id \in Maybe /\ task[t].state \in Maybe /\ managed \in Maybe /\ active \in Maybe
    BY <1>1, Zenon DEF Locals, MemoryType
  <1>4. CASE SelectState(t)
    <2>1. task' = [task EXCEPT ![t] = [task[t] EXCEPT !.at = "mirror", !.id = task[t].id, !.state = managed]]
      BY <1>1, <1>4, Zenon DEF SelectState, Locals
    <2> QED
      BY <1>1, <1>2, <1>3, <1>4, <2>1, Zenon DEF SelectState, memoryVars, diskVars, MemoryType
  <1>5. CASE Mirror(t)
    <2>1. Goto(t, "snapshot") /\ MemoryType' /\ UNCHANGED <<registry, list, meta, returned>>
      BY <1>1, <1>5, Zenon DEF Mirror, MemoryType, diskVars
    <2> QED
      BY <2>1, GotoLocals
  <1>6. CASE SelectSnapshot(t)
    <2>1. task' = [task EXCEPT ![t] = [task[t] EXCEPT !.at = "active", !.id = task[t].id, !.state = managed]]
      BY <1>1, <1>6, Zenon DEF SelectSnapshot, Locals
    <2> QED
      BY <1>1, <1>2, <1>3, <1>6, <2>1, Zenon DEF SelectSnapshot, memoryVars, diskVars, MemoryType
  <1>7. CASE SelectActive(t)
    <2>1. task' = [task EXCEPT ![t] = [task[t] EXCEPT !.at = "save", !.id = active, !.state = task[t].state]]
      BY <1>1, <1>7, Zenon DEF SelectActive, Locals
    <2> QED
      BY <1>1, <1>2, <1>3, <1>7, <2>1, Zenon DEF SelectActive, memoryVars, diskVars, MemoryType
  <1> QED
    BY <1>4, <1>5, <1>6, <1>7, Zenon

\* Posting an event, as part of create_server or not.
LEMMA PostingSteps ==
    ASSUME ClientInvariant, OneTask, NEW t \in UiTask,
           \/ Post(t) \/ BuildEvent(t) \/ SelectState(t) \/ Mirror(t)
           \/ SelectSnapshot(t) \/ SelectActive(t) \/ SaveServerState(t)
    PROVE  ClientInvariant'
  <1>1. t \in Task /\ task[t] \in Locals /\ Fits(task[t]) /\ MemoryType /\ Kept
    BY Zenon DEF ClientInvariant, Task
  <1> USE DEF UiOnly, ListenerStep
  <1>2. ASSUME NEW step \in {"build", "select"}, Goto(t, step), MemoryType',
               UNCHANGED <<registry, list, meta, returned>>
        PROVE  ClientInvariant'
    <2>1. PICK r \in Locals :
            /\ task' = [task EXCEPT ![t] = r]
            /\ r.at = step /\ r.server = task[t].server /\ r.creating = task[t].creating
      BY <1>1, <1>2, GotoLocals, Zenon
    <2> QED
      BY <1>2, <2>1, UiGoes, Zenon
  <1>3. CASE Post(t)
    BY <1>1, <1>2, <1>3, Zenon DEF Post, memoryVars, diskVars, MemoryType
  <1>4. CASE BuildEvent(t)
    <2>1. MemoryType' /\ Kept' /\ UNCHANGED <<registry, list, meta, returned>>
      BY <1>1, <1>4, Zenon DEF BuildEvent, memoryVars, diskVars, MemoryType, Kept
    <2> QED
      BY <1>2, <1>4, <2>1, UiReturns, Zenon DEF BuildEvent
  <1>5. CASE SelectState(t) \/ Mirror(t) \/ SelectSnapshot(t) \/ SelectActive(t)
    BY <1>1, <1>5, PostingLocals, UiGoes, Zenon
  <1>6. CASE SaveServerState(t)
    <2>1. MemoryType' /\ Kept' /\ UNCHANGED <<registry, list, meta, returned>>
      BY <1>1, <1>6, Zenon DEF SaveServerState, memoryVars, MemoryType, Kept
    <2>2. CASE task[t].creating
      <3>1. Goto(t, "ids")
        BY <1>6, <2>2, Zenon DEF SaveServerState
      <3>2. PICK r \in Locals :
              /\ task' = [task EXCEPT ![t] = r]
              /\ r.at = "ids" /\ r.server = task[t].server /\ r.creating = task[t].creating
        BY <1>1, <3>1, GotoLocals, SMTT(30)
      <3>3. Fits(r)'
        BY <1>1, <2>1, <2>2, <3>2, Zenon DEF Fits
      <3> QED
        BY <2>1, <3>2, <3>3, UiTaskStep, Zenon
    <2>3. CASE ~ task[t].creating
      BY <1>6, <2>1, <2>3, UiReturns, Zenon DEF SaveServerState
    <2> QED
      BY <2>2, <2>3, Zenon
  <1> QED
    BY <1>3, <1>4, <1>5, <1>6, Zenon

\* The server goes to disk: first the list, with every server that returned before,
\* then the server's own entry.
LEMMA DiskSteps ==
    ASSUME ClientInvariant, OneTask, NEW t \in UiTask,
           SelectIds(t) \/ SaveServerList(t) \/ SaveServerById(t)
    PROVE  ClientInvariant'
  <1>1. t \in Task /\ task[t] \in Locals /\ Fits(task[t]) /\ MemoryType /\ Kept
    BY Zenon DEF ClientInvariant, Task
  <1> USE DEF UiOnly, ListenerStep
  <1>2. CASE SelectIds(t)
    <2> DEFINE q == [task[t] EXCEPT !.at = "list", !.ids = registry]
    <2>1. PICK r \in Locals : /\ task' = [task EXCEPT ![t] = r] /\ r.at = "list"
                              /\ r.server = task[t].server /\ r.ids = registry
      <3>1. q \in Locals /\ q.at = "list" /\ q.server = task[t].server /\ q.ids = registry
        BY <1>1, Zenon DEF Locals, MemoryType
      <3>2. task' = [task EXCEPT ![t] = q]
        BY <1>1, <1>2, Zenon DEF SelectIds, ClientInvariant
      <3> QED
        BY <3>1, <3>2, Zenon
    <2>2. UNCHANGED <<registry, list, meta, returned>> /\ MemoryType'
      BY <1>1, <1>2, Zenon DEF SelectIds, memoryVars, diskVars, MemoryType
    <2>3. task[t].server \in registry
      BY <1>1, <1>2, Zenon DEF SelectIds, At, Fits
    <2>4. Fits(r)'
      BY <1>1, <2>1, <2>2, <2>3, Zenon DEF Fits, Kept
    <2> QED
      BY <1>1, <2>1, <2>2, <2>4, UiTaskStep, Zenon DEF Kept
  <1>3. CASE SaveServerList(t)
    <2>1. /\ Goto(t, "meta") /\ list' = task[t].ids /\ At(t, "list")
          /\ UNCHANGED <<registry, active, managed, stashed, meta, returned>>
      BY <1>3, Zenon DEF SaveServerList, memoryVars
    <2>2. task[t].server \in registry /\ returned \cup {task[t].server} \subseteq task[t].ids
      BY <1>1, <2>1, Zenon DEF At, Fits
    <2>3. PICK r \in Locals :
            /\ task' = [task EXCEPT ![t] = r]
            /\ r.at = "meta" /\ r.server = task[t].server /\ r.creating = task[t].creating
      BY <1>1, <2>1, GotoLocals, SMTT(30)
    <2>4. MemoryType' /\ Kept'
      BY <1>1, <2>1, <2>2, Zenon DEF MemoryType, Kept, Locals
    <2>5. Fits(r)'
      BY <2>1, <2>2, <2>3, Zenon DEF Fits
    <2> QED
      BY <2>3, <2>4, <2>5, UiTaskStep, Zenon
  <1>4. CASE SaveServerById(t)
    <2>1. /\ At(t, "meta") /\ meta' = meta \cup {task[t].server}
          /\ returned' = returned \cup {task[t].server} /\ Return(t)
          /\ UNCHANGED <<registry, active, managed, stashed, list>>
      BY <1>4, Zenon DEF SaveServerById, memoryVars
    <2>2. task[t].server \in registry /\ task[t].server \in list
      BY <1>1, <2>1, Zenon DEF At, Fits
    <2>3. MemoryType' /\ Kept'
      BY <1>1, <2>1, <2>2, Zenon DEF MemoryType, Kept
    <2> QED
      BY <2>1, <2>3, UiReturns, Zenon
  <1> QED
    BY <1>2, <1>3, <1>4, Zenon

\* accept_invite, switch_server and leave_server.
LEMMA OtherSteps ==
    ASSUME ClientInvariant, OneTask, NEW t \in UiTask,
           \/ \E s \in ServerId : AcceptInvite(t, s) \/ SwitchServer(t, s) \/ LeaveServer(t, s)
           \/ Placeholder(t) \/ Swap(t) \/ Show(t) \/ Activate(t)
    PROVE  ClientInvariant'
  <1>1. t \in Task /\ task[t] \in Locals /\ Fits(task[t]) /\ MemoryType /\ Kept
    BY Zenon DEF ClientInvariant, Task
  <1> USE DEF UiOnly, ListenerStep
  <1>2. ASSUME NEW s \in ServerId, AcceptInvite(t, s) PROVE ClientInvariant'
    <2>1. PICK r \in Locals : /\ task' = [task EXCEPT ![t] = r]
                              /\ r.server = s /\ r.at = "placeholder"
      <3> DEFINE q == [Idle EXCEPT !.at = "placeholder", !.server = s]
      <3>1. q \in Locals /\ q.server = s /\ q.at = "placeholder"
        BY Zenon DEF Idle, Locals, Maybe
      <3> QED
        BY <1>2, <3>1, Zenon DEF AcceptInvite
    <2>2. MemoryType' /\ Kept'
      BY <1>1, <1>2, Zenon DEF AcceptInvite, MemoryType, Kept, diskVars, Maybe
    <2>3. Fits(r)'
      BY <1>2, <2>1, Zenon DEF AcceptInvite, Fits
    <2> QED
      BY <2>1, <2>2, <2>3, UiTaskStep, Zenon
  <1>3. CASE Placeholder(t)
    <2>1. Goto(t, "ids") /\ MemoryType' /\ Kept' /\ UNCHANGED <<registry, list, returned>>
      BY <1>1, <1>3, Zenon DEF Placeholder, MemoryType, Kept, diskVars
    <2>2. PICK r \in Locals :
            /\ task' = [task EXCEPT ![t] = r]
            /\ r.at = "ids" /\ r.server = task[t].server /\ r.creating = task[t].creating
      BY <1>1, <2>1, GotoLocals, SMTT(30)
    <2>3. Fits(r)'
      BY <1>1, <1>3, <2>1, <2>2, Zenon DEF Placeholder, At, Fits
    <2> QED
      BY <2>1, <2>2, <2>3, UiTaskStep, Zenon
  <1>4. ASSUME NEW s \in ServerId, SwitchServer(t, s) PROVE ClientInvariant'
    <2>1. PICK r \in Locals : /\ task' = [task EXCEPT ![t] = r]
                              /\ r.at = "swap" /\ ~ r.creating /\ r.server = s
      <3> DEFINE q == [Idle EXCEPT !.at = "swap", !.server = s, !.id = active]
      <3>1. q \in Locals /\ q.at = "swap" /\ ~ q.creating /\ q.server = s
        BY <1>1, Zenon DEF Idle, Locals, Maybe, MemoryType
      <3> QED
        BY <1>4, <3>1, Zenon DEF SwitchServer
    <2>2. MemoryType' /\ Kept'
      BY <1>1, <1>4, ZenonT(30) DEF SwitchServer, MemoryType, Kept, diskVars, memoryVars
    <2>3. Fits(r)'
      BY <2>1, Zenon DEF Fits
    <2> QED
      BY <2>1, <2>2, <2>3, UiTaskStep, Zenon
  <1>5. CASE Swap(t)
    <2> DEFINE s == task[t].server
               all == IF task[t].id = NoServer THEN stashed
                      ELSE [stashed EXCEPT ![task[t].id] = managed]
               q == [task[t] EXCEPT !.at = "show", !.state = managed']
    <2>1. /\ managed' = all[s] /\ stashed' = [all EXCEPT ![s] = NoServer]
          /\ UNCHANGED <<registry, active, list, meta, returned>>
      BY <1>5, SMTT(30) DEF Swap, diskVars
    <2>2. s \in ServerId /\ stashed \in [ServerId -> Maybe] /\ managed \in Maybe /\ task[t].id \in Maybe
      BY <1>1, <1>5 DEF Swap, At, Fits, MemoryType, Locals
    <2>3. all \in [ServerId -> Maybe]
      BY <2>2, ZenonT(30)
    <2> HIDE DEF all
    <2>4. managed' \in Maybe /\ stashed' \in [ServerId -> Maybe]
      BY <2>1, <2>2, <2>3, Zenon DEF Maybe
    <2>5. MemoryType'
      BY <1>1, <2>1, <2>4, Zenon DEF MemoryType
    <2>6. PICK r \in Locals :
            /\ task' = [task EXCEPT ![t] = r]
            /\ r.at = "show" /\ r.server = task[t].server /\ r.creating = task[t].creating
      <3>1. /\ q \in Locals /\ q.at = "show" /\ q.server = task[t].server
            /\ q.creating = task[t].creating
        BY <1>1, <2>4, Zenon DEF Locals
      <3>2. task' = [task EXCEPT ![t] = q]
        <4>1. task' = [task EXCEPT ![t].at = "show", ![t].state = managed']
          BY <1>5 DEF Swap
        <4> QED
          BY <1>1, <4>1, Zenon DEF ClientInvariant
      <3> QED
        BY <3>1, <3>2, Zenon
    <2> QED
      BY <2>1, <2>5, <2>6, UiGoes, Zenon
  <1>6. CASE Show(t)
    <2>1. Goto(t, "activate") /\ MemoryType' /\ UNCHANGED <<registry, list, meta, returned>>
      BY <1>1, <1>6, Zenon DEF Show, MemoryType, diskVars
    <2>2. PICK r \in Locals :
            /\ task' = [task EXCEPT ![t] = r]
            /\ r.at = "activate" /\ r.server = task[t].server /\ r.creating = task[t].creating
      BY <1>1, <2>1, GotoLocals
    <2> QED
      BY <2>1, <2>2, UiGoes, Zenon
  <1>7. CASE Activate(t)
    <2>1. MemoryType' /\ Kept'
      BY <1>1, <1>7, Zenon DEF Activate, MemoryType, Kept, diskVars, Locals
    <2> QED
      BY <1>7, <2>1, UiReturns, Zenon DEF Activate
  <1>8. ASSUME NEW s \in ServerId, LeaveServer(t, s) PROVE ClientInvariant'
    <2>1. /\ registry' = registry \ {s} /\ returned' = returned \ {s} /\ At(t, "idle")
          /\ active' \in {active, NoServer} \cup registry'
          /\ UNCHANGED <<managed, stashed, list, meta, task>>
      BY <1>8, Zenon DEF LeaveServer, diskVars
    <2>2. MemoryType' /\ Kept'
      BY <1>1, <2>1, Zenon DEF MemoryType, Kept, Maybe
    <2>3. Fits(task[t])'
      BY <1>1, <2>1, Zenon DEF Fits, At
    <2>4. task' = [task EXCEPT ![t] = task[t]]
      BY <1>1, <2>1, Zenon DEF ClientInvariant
    <2> QED
      BY <1>1, <2>1, <2>2, <2>3, <2>4, UiTaskStep, Zenon DEF Fits
  <1> QED
    BY <1>2, <1>3, <1>4, <1>5, <1>6, <1>7, <1>8, Zenon

\* The listener inserts events and saves the state; what else a task may do it does not.
LEMMA ListenerSteps ==
    ASSUME ClientInvariant, (\E s \in ServerId : TryInsertEvent(s)) \/ Step(Listener)
    PROVE  ClientInvariant'
  <1>1. /\ Listener \in Task /\ task[Listener] \in Locals /\ ListenerFits(task[Listener])
        /\ MemoryType
    BY Zenon DEF ClientInvariant, Task
  <1> USE DEF UiOnly, ListenerStep
  <1>2. ASSUME NEW s \in ServerId, TryInsertEvent(s) PROVE ClientInvariant'
    <2>1. Goto(Listener, "select") /\ MemoryType' /\ UNCHANGED <<registry, list, meta, returned>>
      BY <1>1, <1>2, Zenon DEF TryInsertEvent, MemoryType, diskVars, Maybe
    <2>2. PICK r \in Locals :
            /\ task' = [task EXCEPT ![Listener] = r]
            /\ r.at = "select" /\ r.server = task[Listener].server
            /\ r.creating = task[Listener].creating
      BY <1>1, <2>1, GotoLocals
    <2> QED
      BY <1>1, <2>1, <2>2, ListenerTaskStep, Zenon DEF ListenerFits
  <1>3. CASE \/ SelectState(Listener) \/ Mirror(Listener)
             \/ SelectSnapshot(Listener) \/ SelectActive(Listener)
    <2>1. MemoryType' /\ UNCHANGED <<registry, list, meta, returned>>
      BY <1>1, <1>3, PostingLocals, Zenon
    <2>2. PICK r \in Locals :
            /\ task' = [task EXCEPT ![Listener] = r]
            /\ r.server = task[Listener].server /\ r.creating = task[Listener].creating
            /\ r.at \in {"mirror", "snapshot", "active", "save"}
      BY <1>1, <1>3, PostingLocals, Zenon
    <2> QED
      BY <1>1, <2>1, <2>2, ListenerTaskStep, ZenonT(30) DEF ListenerFits
  <1>4. CASE SaveServerState(Listener)
    <2>1. /\ task' = [task EXCEPT ![Listener] = Idle] /\ MemoryType'
          /\ UNCHANGED <<registry, list, meta, returned>>
      BY <1>1, <1>4, Zenon DEF SaveServerState, ListenerFits, Return, MemoryType, memoryVars
    <2> QED
      BY <2>1, IdleLocals, ListenerTaskStep, Zenon DEF ListenerFits
  <1>5. task[Listener].at \notin {"old", "stash", "seed", "seeded", "build", "ids", "list",
                                  "meta", "placeholder", "swap", "show", "activate"}
    BY <1>1, Zenon DEF ListenerFits
  <1> QED
    BY <1>2, <1>3, <1>4, <1>5, Zenon
       DEF Step, At, ReadOld, Stash, SeedGenesis, Seeded, BuildEvent, SelectIds, SaveServerList,
           SaveServerById, Placeholder, Swap, Show, Activate

\* A process that starts finds every server that returned: both entries are on disk.
LEMMA RestartStep ==
    ASSUME ClientInvariant, Restart
    PROVE  ClientInvariant'
  <1>1. MemoryType /\ Kept
    BY Zenon DEF ClientInvariant
  <1>2. /\ registry' = list \cap meta /\ list' = list \cap meta
        /\ active' \in {NoServer} \cup registry'
        /\ managed' = NoServer /\ stashed' = [s \in ServerId |-> NoServer]
        /\ task' = [t \in Task |-> Idle] /\ UNCHANGED <<meta, returned>>
    BY Zenon DEF Restart
  <1>3. MemoryType' /\ Kept'
    BY <1>1, <1>2, Zenon DEF MemoryType, Kept, Maybe
  <1>4. task' \in [Task -> Locals] /\ \A t \in Task : task'[t] = Idle
    BY <1>2, IdleLocals, Zenon
  <1>5. \A t \in UiTask : Fits(task[t])'
    BY <1>4, IdleLocals, Zenon DEF Fits, Task
  <1>6. ListenerFits(task[Listener])'
    BY <1>4, IdleLocals, Zenon DEF ListenerFits, Task, ListenerStep
  <1> QED
    BY <1>3, <1>4, <1>5, <1>6, Zenon DEF ClientInvariant

\* A server that the user created or joined is there after every crash and restart: for
\* a client whose user interface runs one operation at a time, next to the listener.
THEOREM ServersSurvive == ASSUME OneTask PROVE ClientSpec => []SurvivesReload
  <1>1. ClientInit => ClientInvariant
    <2> SUFFICES ASSUME ClientInit PROVE ClientInvariant
      BY Zenon
    <2>1. MemoryType /\ Kept
      BY Zenon DEF ClientInit, MemoryType, Kept, Maybe
    <2>2. task \in [Task -> Locals] /\ \A t \in Task : task[t] = Idle
      BY IdleLocals, Zenon DEF ClientInit
    <2>3. \A t \in UiTask : Fits(task[t])
      BY <2>2, IdleLocals, Zenon DEF Fits, Task
    <2>4. ListenerFits(task[Listener])
      BY <2>2, IdleLocals, Zenon DEF ListenerFits, Task, ListenerStep
    <2> QED
      BY <2>1, <2>2, <2>3, <2>4, Zenon DEF ClientInvariant
  <1>2. ClientInvariant /\ [ClientNext]_clientVars => ClientInvariant'
    <2> SUFFICES ASSUME ClientInvariant, [ClientNext]_clientVars PROVE ClientInvariant'
      BY Zenon
    <2>1. ASSUME NEW t \in UiTask, UiStart(t) PROVE ClientInvariant'
      BY <2>1, CreatingSteps, PostingSteps, OtherSteps, Zenon DEF UiStart
    <2>2. ASSUME NEW t \in UiTask, Step(t) PROVE ClientInvariant'
      BY <2>2, CreatingSteps, PostingSteps, DiskSteps, OtherSteps, Zenon DEF Step
    <2>3. CASE UNCHANGED clientVars
      BY <2>3, Zenon DEF clientVars, memoryVars, diskVars, ClientInvariant, MemoryType, Kept, Fits,
         ListenerFits
    <2> QED
      BY <2>1, <2>2, <2>3, ListenerSteps, RestartStep, Zenon DEF ClientNext, Task
  <1>3. ClientInvariant => SurvivesReload
    BY Zenon DEF ClientInvariant, Kept, SurvivesReload
  <1> QED
    BY <1>1, <1>2, <1>3, PTL DEF ClientSpec

-----------------------------------------------------------------------------
(* The inviter's links (Joining).                                          *)

\* Two maps say the same of a link.
Same(f, g, l) == (l \in DOMAIN f <=> l \in DOMAIN g) /\ (l \in DOMAIN f => f[l] = g[l])

\* What is kept of links: the uses of each.
LinkMap == UNION {[S -> Nat] : S \in SUBSET Link}

Save == {sv \in [server : JoinServer, links : LinkMap] :
            \A l \in DOMAIN sv.links : ServerOf[l] = sv.server}

\* The last save of a link's server that is under way has the link as it is in memory;
\* if there is none, the disk has it.
SavesCurrent ==
    \A l \in Link :
        /\ (\A i \in DOMAIN saves : saves[i].server # ServerOf[l]) => Same(saved, links, l)
        /\ \A i \in DOMAIN saves :
            saves[i].server = ServerOf[l]
            /\ (\A j \in DOMAIN saves : j > i => saves[j].server # ServerOf[l])
                => Same(saves[i].links, links, l)

LinksInv ==
    /\ links \in LinkMap
    /\ saved \in LinkMap
    /\ saves \in Seq(Save)
    /\ SavesCurrent

\* persist_join_links_for: a save with every link of the server, as it is after the
\* change, makes up for a change to links of that server.
LEMMA PersistKeeps ==
    ASSUME LinksInv, NEW s \in JoinServer, Persist(s, links'),
           links' \in LinkMap,
           saved' = saved,
           \A l \in Link : ServerOf[l] # s => Same(links', links, l)
    PROVE  LinksInv'
<1> DEFINE sv == [server |-> s,
                  links |-> Restrict(links', {l \in DOMAIN links' : ServerOf[l] = s})]
<1>1. saves' = Append(saves, sv)
  BY Zenon DEF Persist
<1>2. DOMAIN sv.links = {l \in DOMAIN links' : ServerOf[l] = s}
      /\ \A l \in DOMAIN sv.links : sv.links[l] = links'[l]
  BY Zenon DEF Restrict
<1>3. sv \in Save
  <2>1. sv.links \in [DOMAIN sv.links -> Nat]
    <3>1. \A l \in DOMAIN links' : links'[l] \in Nat
      BY Zenon DEF LinkMap
    <3> QED
      BY <1>2, <3>1, Zenon DEF Restrict
  <2>2. DOMAIN sv.links \in SUBSET Link
    BY <1>2, Zenon DEF LinkMap
  <2>3. sv.links \in LinkMap
    BY <2>1, <2>2, ZenonT(30) DEF LinkMap
  <2>4. \A l \in DOMAIN sv.links : ServerOf[l] = sv.server
    BY <1>2, Zenon
  <2> QED
    BY <2>3, <2>4, Zenon DEF Save
<1>4. saves' \in Seq(Save) /\ Len(saves') = Len(saves) + 1
      /\ saves'[Len(saves) + 1] = sv /\ \A i \in 1 .. Len(saves) : saves'[i] = saves[i]
  BY <1>1, <1>3, SMTT(30) DEF LinksInv
<1> HIDE DEF sv
<1>5. sv.server = s
  BY Zenon DEF sv
<1>6. ASSUME NEW l \in Link
      PROVE  /\ (\A i \in DOMAIN saves' : saves'[i].server # ServerOf[l])
                    => Same(saved', links', l)
             /\ \A i \in DOMAIN saves' :
                    saves'[i].server = ServerOf[l]
                    /\ (\A j \in DOMAIN saves' : j > i => saves'[j].server # ServerOf[l])
                        => Same(saves'[i].links, links', l)
  <2>1. CASE ServerOf[l] = s
    <3>1. Same(sv.links, links', l)
      BY <1>2, <2>1, SMTT(30) DEF Same
    <3>2. Len(saves) \in Nat /\ DOMAIN saves' = 1 .. Len(saves) + 1
      BY <1>4, SMTT(30) DEF LinksInv
    <3> QED
      BY <1>4, <1>5, <2>1, <3>1, <3>2, SMTT(30)
  <2>2. CASE ServerOf[l] # s
    <3>1. Same(links', links, l)
      BY <2>2, Zenon
    <3>2. Len(saves) \in Nat /\ DOMAIN saves' = 1 .. Len(saves) + 1 /\ DOMAIN saves = 1 .. Len(saves)
      BY <1>4, SMTT(30) DEF LinksInv
    <3>3. (\A i \in DOMAIN saves' : saves'[i].server # ServerOf[l]) => Same(saved, links, l)
      BY <1>4, <3>2, SMTT(30) DEF LinksInv, SavesCurrent
    <3>4. ASSUME NEW i \in DOMAIN saves', saves'[i].server = ServerOf[l],
                 \A j \in DOMAIN saves' : j > i => saves'[j].server # ServerOf[l]
          PROVE  Same(saves'[i].links, links, l)
      <4>1. i \in DOMAIN saves /\ saves'[i] = saves[i]
        BY <1>4, <1>5, <2>2, <3>2, <3>4, SMTT(30)
      <4>2. \A j \in DOMAIN saves : j > i => saves[j].server # ServerOf[l]
        BY <1>4, <3>2, <3>4, SMTT(30)
      <4> QED
        BY <3>4, <4>1, <4>2, Zenon DEF LinksInv, SavesCurrent
    <3> QED
      BY <3>1, <3>3, <3>4, Zenon DEF Same
  <2> QED
    BY <2>1, <2>2, SMTT(30)
<1> QED
  BY <1>4, <1>6, Zenon DEF LinksInv, SavesCurrent

\* The persistence actor writes the oldest save.
LEMMA PersistedKeeps ==
    ASSUME LinksInv, PersistJoinLinks
    PROVE  LinksInv'
<1> DEFINE sv == Head(saves)
<1>1. saves \in Seq(Save) /\ saves # << >> /\ Len(saves) \in Nat /\ links' = links
  BY DEF LinksInv, PersistJoinLinks
<1>2. /\ sv = saves[1] /\ sv \in Save /\ saves' = Tail(saves) /\ saves' \in Seq(Save)
      /\ DOMAIN saves = 1 .. Len(saves) /\ DOMAIN saves' = 1 .. Len(saves) - 1
      /\ \A i \in DOMAIN saves' : saves'[i] = saves[i + 1]
  BY <1>1 DEF PersistJoinLinks
<1>3. saved' = Written(saved, sv)
  BY Zenon DEF PersistJoinLinks
<1> HIDE DEF sv
<1>4. /\ DOMAIN saved' = {k \in DOMAIN saved : ServerOf[k] # sv.server} \cup DOMAIN sv.links
      /\ \A l \in DOMAIN saved' :
            saved'[l] = IF l \in DOMAIN sv.links THEN sv.links[l] ELSE saved[l]
  BY <1>3, Zenon DEF Written
<1>5. saved' \in LinkMap
  <2>1. /\ DOMAIN saved \subseteq Link /\ \A l \in DOMAIN saved : saved[l] \in Nat
        /\ DOMAIN sv.links \subseteq Link /\ \A l \in DOMAIN sv.links : sv.links[l] \in Nat
    BY <1>2, SMTT(30) DEF LinksInv, LinkMap, Save
  <2>2. saved' \in [DOMAIN saved' -> Nat]
    BY <1>3, <1>4, <2>1, Zenon DEF Written
  <2>3. DOMAIN saved' \in SUBSET Link
    BY <1>4, <2>1, Zenon
  <2> QED
    BY <2>2, <2>3, ZenonT(30) DEF LinkMap
<1>6. ASSUME NEW l \in Link
      PROVE  /\ (\A i \in DOMAIN saves' : saves'[i].server # ServerOf[l])
                    => Same(saved', links, l)
             /\ \A i \in DOMAIN saves' :
                    saves'[i].server = ServerOf[l]
                    /\ (\A j \in DOMAIN saves' : j > i => saves'[j].server # ServerOf[l])
                        => Same(saves'[i].links, links, l)
  <2>1. ASSUME \A i \in DOMAIN saves' : saves'[i].server # ServerOf[l]
        PROVE  Same(saved', links, l)
    <3>1. \A i \in DOMAIN saves : i > 1 => saves[i].server # ServerOf[l]
      <4>1. \A i \in DOMAIN saves : i > 1 => i - 1 \in DOMAIN saves' /\ saves'[i - 1] = saves[i]
        BY <1>1, <1>2, SMTT(30)
      <4> QED
        BY <2>1, <4>1, Zenon
    <3>2. CASE sv.server = ServerOf[l]
      <4>1. Same(sv.links, links, l)
        <5>1. 1 \in DOMAIN saves
          BY <1>1, <1>2, SMTT(30)
        <5> QED
          BY <1>2, <3>1, <3>2, <5>1, Zenon DEF LinksInv, SavesCurrent
      <4>2. Same(saved', sv.links, l)
        BY <1>4, <3>2, Zenon DEF Same
      <4> QED
        BY <4>1, <4>2, Zenon DEF Same
    <3>3. CASE sv.server # ServerOf[l]
      <4>1. \A i \in DOMAIN saves : saves[i].server # ServerOf[l]
        BY <1>1, <1>2, <3>1, <3>3, SMTT(30)
      <4>2. Same(saved, links, l)
        BY <4>1, Zenon DEF LinksInv, SavesCurrent
      <4>3. Same(saved', saved, l)
        BY <1>2, <1>4, <3>3, Zenon DEF Same, Save
      <4> QED
        BY <4>2, <4>3, Zenon DEF Same
    <3> QED
      BY <3>2, <3>3, Zenon
  <2>2. ASSUME NEW i \in DOMAIN saves', saves'[i].server = ServerOf[l],
               \A j \in DOMAIN saves' : j > i => saves'[j].server # ServerOf[l]
        PROVE  Same(saves'[i].links, links, l)
    <3>1. i + 1 \in DOMAIN saves /\ saves'[i] = saves[i + 1]
      BY <1>1, <1>2, SMTT(30)
    <3>2. ASSUME NEW j \in DOMAIN saves, j > i + 1 PROVE saves[j].server # ServerOf[l]
      <4>1. j - 1 \in DOMAIN saves' /\ j - 1 > i /\ saves'[j - 1] = saves[j]
        BY <1>1, <1>2, <3>2
      <4> QED
        BY <2>2, <4>1, Zenon
    <3> QED
      BY <2>2, <3>1, <3>2, Zenon DEF LinksInv, SavesCurrent
  <2> QED
    BY <2>1, <2>2, Zenon
<1> QED
  BY <1>1, <1>2, <1>5, <1>6, Zenon DEF LinksInv, SavesCurrent

\* Whenever no save is under way the disk has the links, and the uses, that memory has,
\* for any links and servers, any number of restarts, and joins answered while saves
\* wait: every change to a link is followed by a save of its server's links, and the
\* saves are written in the order they are sent.
THEOREM UsesAlwaysReachDisk == JoinSpec => []UsesReachDisk
<1>1. JoinInit => LinksInv
  <2> SUFFICES ASSUME JoinInit PROVE LinksInv
    BY Zenon
  <2>1. << >> \in LinkMap
    <3>1. << >> \in [{} -> Nat]
      OBVIOUS
    <3> QED
      BY <3>1, Zenon DEF LinkMap
  <2>2. saves \in Seq(Save) /\ DOMAIN saves = {} /\ saved = links
    <3>1. saves = << >> /\ saved = links
      BY Zenon DEF JoinInit
    <3>2. << >> \in Seq(Save)
      OBVIOUS
    <3>3. DOMAIN << >> = {}
      BY SMTT(30)
    <3> QED
      BY <3>1, <3>2, <3>3, Zenon
  <2>3. SavesCurrent
    BY <2>2, Zenon DEF SavesCurrent, Same
  <2> QED
    BY <2>1, <2>2, <2>3, Zenon DEF JoinInit, LinksInv
<1>2. LinksInv /\ [JoinNext]_joinVars => LinksInv'
  <2> SUFFICES ASSUME LinksInv, [JoinNext]_joinVars PROVE LinksInv'
    BY Zenon
  <2>0. /\ links = [l \in DOMAIN links |-> links[l]] /\ DOMAIN links \subseteq Link
        /\ \A l \in DOMAIN links : links[l] \in Nat
    BY SMTT(30) DEF LinksInv, LinkMap
  <2>1. ASSUME UNCHANGED <<links, saves, saved>> PROVE LinksInv'
    BY <2>1, Zenon DEF LinksInv, SavesCurrent, Same
  <2>2. ASSUME NEW l \in Link, CreateJoinLink(l) PROVE LinksInv'
    <3>1. links' = [k \in DOMAIN links \cup {l} |-> IF k = l THEN 0 ELSE links[k]]
      BY <2>2, Zenon DEF CreateJoinLink
    <3>2. links' \in [DOMAIN links \cup {l} -> Nat] /\ DOMAIN links \cup {l} \in SUBSET Link
      BY <2>0, <3>1, Zenon
    <3>3. links' \in LinkMap
      BY <3>2, Zenon DEF LinkMap
    <3>4. \A k \in Link : ServerOf[k] # ServerOf[l] => Same(links', links, k)
      BY <3>1, Zenon DEF Same
    <3>5. ServerOf[l] \in JoinServer /\ Persist(ServerOf[l], links') /\ saved' = saved
      BY <2>2, JoinAssumption, Zenon DEF CreateJoinLink
    <3> QED
      BY <3>3, <3>4, <3>5, PersistKeeps, Zenon
  <2>3. ASSUME NEW l \in Link, DeleteJoinLink(l) PROVE LinksInv'
    <3>1. links' = [k \in DOMAIN links \ {l} |-> links[k]]
      BY <2>3, Zenon DEF DeleteJoinLink, Restrict
    <3>2. links' \in [DOMAIN links \ {l} -> Nat] /\ DOMAIN links \ {l} \in SUBSET Link
      BY <2>0, <3>1, Zenon
    <3>3. links' \in LinkMap
      BY <3>2, Zenon DEF LinkMap
    <3>4. \A k \in Link : ServerOf[k] # ServerOf[l] => Same(links', links, k)
      BY <3>1, Zenon DEF Same
    <3>5. ServerOf[l] \in JoinServer /\ Persist(ServerOf[l], links') /\ saved' = saved
      BY <2>3, JoinAssumption, Zenon DEF DeleteJoinLink
    <3> QED
      BY <3>3, <3>4, <3>5, PersistKeeps, Zenon
  <2>4. CASE InviterRestart
    <3>1. links' = saved /\ saved' = saved /\ saves' = << >>
      BY <2>4, Zenon DEF InviterRestart
    <3> QED
      BY <3>1 DEF LinksInv, SavesCurrent, Same
  <2>5. ASSUME NEW m \in messages, JoinRequest(m) PROVE LinksInv'
    <3>1. CASE m.link \in DOMAIN links /\ Charge(m.link)
      <4> DEFINE l == m.link
      <4>1. links' = [links EXCEPT ![l] = @ + 1] /\ l \in Link
        BY <2>0, <3>1, Zenon DEF Charge
      <4>2. links' \in [DOMAIN links -> Nat] /\ DOMAIN links \in SUBSET Link
        <5>1. l \in DOMAIN links /\ links[l] + 1 \in Nat
          BY <2>0, <3>1
        <5>2. links' = [k \in DOMAIN links |-> IF k = l THEN links[l] + 1 ELSE links[k]]
          BY <2>0, <4>1, Zenon
        <5> QED
          BY <2>0, <5>1, <5>2, Zenon
      <4>3. links' \in LinkMap
        BY <4>2, Zenon DEF LinkMap
      <4>4. \A k \in Link : ServerOf[k] # ServerOf[l] => Same(links', links, k)
        BY <4>1, Zenon DEF Same
      <4>5. ServerOf[l] \in JoinServer /\ Persist(ServerOf[l], links') /\ saved' = saved
        BY <2>5, <3>1, <4>1, JoinAssumption, Zenon DEF Charge, JoinRequest
      <4> QED
        BY <4>3, <4>4, <4>5, PersistKeeps, Zenon
    <3> QED
      BY <2>1, <2>5, <3>1, Zenon DEF JoinRequest, linkVars
  <2>6. CASE UNCHANGED joinVars
    BY <2>1, <2>6, Zenon DEF joinVars, inviterVars, linkVars
  <2>7. ASSUME \/ \E l \in Link : Expire(l)
               \/ Respond \/ GrantSendMessages
               \/ \E s \in JoinServer : SwitchShown(s)
               \/ \E j \in Joiner : ClickJoin(j) \/ Retry(j)
               \/ \E m \in messages : JoinAnswer(m) \/ LoseMessage(m)
        PROVE  UNCHANGED <<links, saves, saved>>
    BY <2>7, Zenon DEF Expire, Respond, GrantSendMessages, SwitchShown, ClickJoin, Retry, JoinAnswer,
                LoseMessage, inviterVars, linkVars
  <2> QED
    BY <2>1, <2>2, <2>3, <2>4, <2>5, <2>6, <2>7, PersistedKeeps, Zenon DEF JoinNext
<1>3. LinksInv => UsesReachDisk
  <2> SUFFICES ASSUME LinksInv, saves = << >> PROVE saved = links
    BY Zenon DEF UsesReachDisk
  <2>1. \A l \in Link : Same(saved, links, l)
    BY DEF LinksInv, SavesCurrent
  <2>2. /\ saved = [l \in DOMAIN saved |-> saved[l]] /\ links = [l \in DOMAIN links |-> links[l]]
        /\ DOMAIN saved \subseteq Link /\ DOMAIN links \subseteq Link
    BY Zenon DEF LinksInv, LinkMap
  <2> QED
    BY <2>1, <2>2, Zenon DEF Same
<1> QED
  BY <1>1, <1>2, <1>3, PTL DEF JoinSpec

-----------------------------------------------------------------------------
(* Joining: the joiner's request and the inviter's grant.                  *)

\* j holds SendMessages, or the listener is about to grant it, or the inviter restarted.
Backed(j) ==
    \/ j \in granted \/ restarts > 0
    \/ answering.next = "grant" /\ answering.joiner = j

\* A page that is connecting has an entry in pending_joins, without which the answer
\* would be ignored; and a joiner with an invite may send messages or is about to, unless
\* the inviter restarted between the JoinResponse and the grant.
InvitesAreBacked ==
    \A j \in Joiner :
        /\ page[j].status = "connecting" => j \in pending
        /\ joined[j] # {} => Backed(j)

InvitesInv ==
    /\ page \in [Joiner -> [status : {"", "connecting", "denied"}, retrying : BOOLEAN]]
    /\ joined \in [Joiner -> SUBSET JoinServer] /\ activeServer \in JoinServer /\ restarts \in Nat
    /\ answering = NoTask \/ answering \in [joiner : Joiner, link : Link, next : {"respond", "grant"}]
    /\ \A m \in messages : m.joiner \in Joiner
    /\ \A m \in messages : m.kind = "JoinResponse" => m.server \in JoinServer /\ Backed(m.joiner)
    /\ \A m \in messages : m.kind = "JoinRequest" => m.link \in Link
    /\ InvitesAreBacked

\* What a step that leaves the joiners and the messages alone has to keep.
LEMMA BackedStays ==
    ASSUME InvitesInv, UNCHANGED <<joinerVars, messages>>, activeServer' \in JoinServer, restarts' \in Nat,
           answering' = NoTask \/ answering' \in [joiner : Joiner, link : Link, next : {"respond", "grant"}],
           \A j \in Joiner : Backed(j) => Backed(j)'
    PROVE  InvitesInv'
<1>1. page' = page /\ pending' = pending /\ joined' = joined /\ messages' = messages
  BY Zenon DEF joinerVars
<1>2. InvitesAreBacked'
  BY <1>1, Zenon DEF InvitesInv, InvitesAreBacked
<1> QED
  BY <1>1, <1>2, ZenonT(30) DEF InvitesInv

LEMMA InvitesStep == InvitesInv /\ [JoinNext]_joinVars => InvitesInv'
<1> SUFFICES ASSUME InvitesInv, [JoinNext]_joinVars PROVE InvitesInv'
  BY Zenon
<1>1. /\ page \in [Joiner -> [status : {"", "connecting", "denied"}, retrying : BOOLEAN]]
      /\ joined \in [Joiner -> SUBSET JoinServer] /\ activeServer \in JoinServer /\ restarts \in Nat
      /\ answering = NoTask \/ answering \in [joiner : Joiner, link : Link, next : {"respond", "grant"}]
      /\ \A m \in messages : m.joiner \in Joiner
      /\ \A m \in messages : m.kind = "JoinResponse" => m.server \in JoinServer /\ Backed(m.joiner)
      /\ \A m \in messages : m.kind = "JoinRequest" => m.link \in Link
      /\ \A j \in Joiner : page[j].status = "connecting" => j \in pending
      /\ \A j \in Joiner : joined[j] # {} => Backed(j)
  BY Zenon DEF InvitesInv, InvitesAreBacked
<1>2. ASSUME UNCHANGED <<answering, granted, restarts>> PROVE \A j \in Joiner : Backed(j) <=> Backed(j)'
  BY <1>2, Zenon DEF Backed
\* Steps of the inviter that leave what it answers alone.
<1>3. ASSUME UNCHANGED <<joinerVars, messages, answering, granted, restarts>>, activeServer' \in JoinServer
      PROVE  InvitesInv'
  BY <1>1, <1>2, <1>3, BackedStays, Zenon
<1>4. ASSUME NEW l \in Link, CreateJoinLink(l) \/ DeleteJoinLink(l) \/ Expire(l) PROVE InvitesInv'
  BY <1>1, <1>3, <1>4, Zenon DEF CreateJoinLink, DeleteJoinLink, Expire
<1>5. ASSUME PersistJoinLinks PROVE InvitesInv'
  BY <1>1, <1>3, <1>5, Zenon DEF PersistJoinLinks
<1>6. ASSUME NEW s \in JoinServer, SwitchShown(s) PROVE InvitesInv'
  BY <1>1, <1>3, <1>6, Zenon DEF SwitchShown
<1>7. ASSUME InviterRestart PROVE InvitesInv'
  <2>1. restarts' = restarts + 1 /\ answering' = NoTask /\ activeServer' = activeServer /\ UNCHANGED <<joinerVars, messages>>
    BY <1>7, Zenon DEF InviterRestart
  <2>2. restarts' > 0 /\ restarts' \in Nat
    <3>1. restarts \in Nat
      BY <1>1, Zenon
    <3> QED
      BY <2>1, <3>1
  <2>3. \A j \in Joiner : Backed(j)'
    BY <2>2, Zenon DEF Backed
  <2> QED
    BY <1>1, <2>1, <2>2, <2>3, BackedStays, Zenon
<1>8. ASSUME GrantSendMessages PROVE InvitesInv'
  <2>1. /\ answering.next = "grant" /\ granted' = granted \cup {answering.joiner} /\ answering' = NoTask
        /\ activeServer' = activeServer /\ restarts' = restarts /\ UNCHANGED <<joinerVars, messages>>
    BY <1>8, Zenon DEF GrantSendMessages
  <2>2. \A j \in Joiner : Backed(j) => Backed(j)'
    BY <2>1, Zenon DEF Backed
  <2> QED
    BY <1>1, <2>1, <2>2, BackedStays, Zenon
\* Steps that change the messages and nothing the joiners have.
<1>9. ASSUME UNCHANGED <<joinerVars, activeServer, restarts>>, \A j \in Joiner : Backed(j) => Backed(j)',
             answering' = NoTask \/ answering' \in [joiner : Joiner, link : Link, next : {"respond", "grant"}],
             \A m \in messages' : m \in messages \/
                (/\ m.joiner \in Joiner
                 /\ m.kind = "JoinResponse" => m.server \in JoinServer /\ Backed(m.joiner)'
                 /\ m.kind = "JoinRequest" => m.link \in Link)
      PROVE  InvitesInv'
  <2>1. page' = page /\ pending' = pending /\ joined' = joined
    BY <1>9, Zenon DEF joinerVars
  <2>2. InvitesAreBacked'
    BY <1>1, <1>9, <2>1, Zenon DEF InvitesAreBacked
  <2>3. \A m \in messages' : m.joiner \in Joiner
    BY <1>1, <1>9, Zenon
  <2>4. \A m \in messages' : m.kind = "JoinResponse" => m.server \in JoinServer /\ Backed(m.joiner)'
    BY <1>1, <1>9, Zenon
  <2>5. \A m \in messages' : m.kind = "JoinRequest" => m.link \in Link
    BY <1>1, <1>9, Zenon
  <2>6. activeServer' \in JoinServer /\ restarts' \in Nat
    BY <1>1, <1>9, Zenon
  <2> QED
    BY <1>1, <1>9, <2>1, <2>2, <2>3, <2>4, <2>5, <2>6, ZenonT(30) DEF InvitesInv
<1>10. ASSUME Respond PROVE InvitesInv'
  <2> DEFINE x == [kind |-> "JoinResponse", joiner |-> answering.joiner, link |-> answering.link,
                   server |-> activeServer]
  <2>1. /\ answering.next = "respond" /\ messages' = messages \cup {x}
        /\ answering' = [answering EXCEPT !.next = "grant"]
        /\ granted' = granted /\ UNCHANGED <<joinerVars, activeServer, restarts>>
    BY <1>10, Zenon DEF Respond, linkVars
  <2>2. answering \in [joiner : Joiner, link : Link, next : {"respond", "grant"}]
    <3>1. NoTask.next # "respond"
      BY Zenon DEF NoTask
    <3> QED
      BY <1>1, <2>1, <3>1, Zenon
  <2>3. /\ answering' \in [joiner : Joiner, link : Link, next : {"respond", "grant"}]
        /\ answering'.next = "grant" /\ answering'.joiner = answering.joiner
    BY <2>1, <2>2, Zenon
  <2>4. \A j \in Joiner : Backed(j) => Backed(j)'
    BY <2>1, Zenon DEF Backed
  <2>5. Backed(answering.joiner)'
    <3>1. answering'.next = "grant" /\ answering'.joiner = (answering.joiner)
      BY <2>3, Zenon
    <3> QED
      BY <3>1, Zenon DEF Backed
  <2>6. x.kind = "JoinResponse" /\ x.joiner \in Joiner /\ x.server \in JoinServer /\ x.joiner = answering.joiner
    BY <1>1, <2>2, Zenon
  <2> QED
    BY <1>9, <2>1, <2>3, <2>4, <2>5, <2>6, Zenon
<1>11. ASSUME NEW m \in messages, JoinRequest(m) PROVE InvitesInv'
  <2>1. /\ answering = NoTask /\ m.kind = "JoinRequest" /\ granted' = granted
        /\ UNCHANGED <<joinerVars, activeServer, restarts>>
    BY <1>11, Zenon DEF JoinRequest
  <2>2. m.joiner \in Joiner /\ m.link \in Link
    BY <1>1, <2>1, Zenon
  <2>3. \A j \in Joiner : Backed(j) => Backed(j)'
    BY <2>1, Zenon DEF Backed, NoTask
  <2>4. answering' = NoTask \/ answering' = [joiner |-> m.joiner, link |-> m.link, next |-> "respond"]
    BY <1>11, <2>1, Zenon DEF JoinRequest
  <2>5. \A n \in messages' : n \in messages \/ n = [kind |-> "JoinDenied", joiner |-> m.joiner, link |-> m.link]
    BY <1>11, Zenon DEF JoinRequest
  <2>6. answering' = NoTask \/ answering' \in [joiner : Joiner, link : Link, next : {"respond", "grant"}]
    BY <2>2, <2>4, SMTT(30)
  <2>7. ASSUME NEW n \in messages', n \notin messages
        PROVE  n.joiner \in Joiner /\ n.kind # "JoinResponse" /\ n.kind # "JoinRequest"
    BY <2>2, <2>5, <2>7, SMTT(30)
  <2> QED
    BY <1>9, <2>1, <2>3, <2>6, <2>7, Zenon
<1>12. ASSUME NEW m \in messages, LoseMessage(m) PROVE InvitesInv'
  <2>1. messages' = messages \ {m} /\ UNCHANGED <<answering, granted, restarts>> /\ UNCHANGED <<joinerVars, activeServer, restarts>>
    BY <1>12, Zenon DEF LoseMessage, inviterVars
  <2> QED
    BY <1>1, <1>2, <1>9, <2>1, ZenonT(30)
\* Steps of the joiners.
<1>13. ASSUME UNCHANGED inviterVars,
              page' \in [Joiner -> [status : {"", "connecting", "denied"}, retrying : BOOLEAN]],
              joined' \in [Joiner -> SUBSET JoinServer],
              \A j \in Joiner : page'[j].status = "connecting" => j \in pending',
              \A j \in Joiner : joined'[j] # {} => Backed(j),
              \A m \in messages' : m \in messages \/
                 (m.joiner \in Joiner /\ m.kind = "JoinRequest" /\ m.link \in Link)
       PROVE  InvitesInv'
  <2>1. answering' = answering /\ granted' = granted /\ restarts' = restarts /\ activeServer' = activeServer
    BY <1>13, Zenon DEF inviterVars
  <2>2. \A j \in Joiner : Backed(j) <=> Backed(j)'
    BY <1>2, <2>1, Zenon
  <2>3. InvitesAreBacked'
    BY <1>13, <2>2, Zenon DEF InvitesAreBacked
  <2>4. \A m \in messages' : m.joiner \in Joiner
    BY <1>1, <1>13, Zenon
  <2>5. \A m \in messages' : m.kind = "JoinResponse" => m.server \in JoinServer /\ Backed(m.joiner)'
    BY <1>1, <1>13, <2>2, Zenon
  <2>6. \A m \in messages' : m.kind = "JoinRequest" => m.link \in Link
    BY <1>1, <1>13, ZenonT(30)
  <2> QED
    BY <1>1, <1>13, <2>1, <2>3, <2>4, <2>5, <2>6, Zenon DEF InvitesInv
<1>14. ASSUME NEW j \in Joiner, SendJoinRequest(j)
       PROVE  /\ pending' = pending \cup {j}
              /\ \A m \in messages' : m \in messages \/
                    (m.joiner \in Joiner /\ m.kind = "JoinRequest" /\ m.link \in Link)
  BY <1>14, JoinAssumption DEF SendJoinRequest
<1>15. ASSUME NEW j \in Joiner, ClickJoin(j) PROVE InvitesInv'
  <2>1. /\ page' = [page EXCEPT ![j].status = "connecting"] /\ SendJoinRequest(j)
        /\ UNCHANGED inviterVars /\ joined' = joined
    BY <1>15, Zenon DEF ClickJoin
  <2>2. page' \in [Joiner -> [status : {"", "connecting", "denied"}, retrying : BOOLEAN]]
    BY <1>1, <2>1, Zenon
  <2>3. \A k \in Joiner : page'[k].status = "connecting" => k \in pending'
    BY <1>1, <1>14, <2>1, Zenon
  <2> QED
    BY <1>1, <1>13, <1>14, <2>1, <2>2, <2>3, ZenonT(30)
<1>16. ASSUME NEW j \in Joiner, Retry(j) PROVE InvitesInv'
  <2>1. UNCHANGED inviterVars /\ joined' = joined
    BY <1>16, Zenon DEF Retry
  <2>2. CASE SendJoinRequest(j) /\ page' = page
    BY <1>1, <1>13, <1>14, <2>1, <2>2, Zenon
  <2>3. CASE /\ page' = [page EXCEPT ![j].retrying = FALSE]
             /\ UNCHANGED <<pending, messages>>
    <3>1. page' \in [Joiner -> [status : {"", "connecting", "denied"}, retrying : BOOLEAN]]
      BY <1>1, <2>3, Zenon
    <3>2. \A k \in Joiner : page'[k].status = page[k].status
      BY <1>1, <2>3, ZenonT(30)
    <3> QED
      BY <1>1, <1>13, <2>1, <2>3, <3>1, <3>2, Zenon
  <2> QED
    BY <1>16, <2>2, <2>3, Zenon DEF Retry
<1>17. ASSUME NEW m \in messages, JoinAnswer(m) PROVE InvitesInv'
  <2>1. /\ messages' = messages \ {m} /\ pending' = pending \ {m.joiner} /\ UNCHANGED inviterVars
        /\ m.joiner \in Joiner
    BY <1>1, <1>17, Zenon DEF JoinAnswer
  <2>2. CASE m.joiner \notin pending /\ UNCHANGED <<page, joined>>
    BY <1>1, <1>13, <2>1, <2>2, Zenon
  <2>3. CASE /\ m.kind = "JoinResponse" /\ joined' = [joined EXCEPT ![m.joiner] = @ \cup {m.server}]
             /\ page' = [page EXCEPT ![m.joiner].status = ""]
    <3>1. /\ page' \in [Joiner -> [status : {"", "connecting", "denied"}, retrying : BOOLEAN]]
          /\ page'[m.joiner].status # "connecting"
          /\ \A k \in Joiner : k # m.joiner => page'[k] = page[k]
      BY <1>1, <2>1, <2>3, Zenon
    <3>2. m.server \in JoinServer /\ Backed(m.joiner)
      BY <1>1, <2>3, Zenon
    <3>3. /\ joined' \in [Joiner -> SUBSET JoinServer]
          /\ \A k \in Joiner : k # m.joiner => joined'[k] = joined[k]
      BY <1>1, <2>1, <2>3, <3>2, Zenon
    <3> QED
      BY <1>1, <1>13, <2>1, <3>1, <3>2, <3>3, Zenon
  <2>4. CASE /\ page' = [page EXCEPT ![m.joiner].status = "denied"]
             /\ UNCHANGED joined
    <3>1. /\ page' \in [Joiner -> [status : {"", "connecting", "denied"}, retrying : BOOLEAN]]
          /\ page'[m.joiner].status # "connecting"
          /\ \A k \in Joiner : k # m.joiner => page'[k] = page[k]
      BY <1>1, <2>1, <2>4, Zenon
    <3> QED
      BY <1>1, <1>13, <2>1, <2>4, <3>1, Zenon
  <2> QED
    BY <1>17, <2>2, <2>3, <2>4, Zenon DEF JoinAnswer
<1>18. CASE UNCHANGED joinVars
  BY <1>1, <1>3, <1>18, Zenon DEF joinVars, inviterVars
<1> QED
  BY <1>4, <1>5, <1>6, <1>7, <1>8, <1>10, <1>11, <1>12, <1>15, <1>16, <1>17, <1>18, ZenonT(60) DEF JoinNext

\* Whoever the inviter answered gets the permission as well, and an answer is never
\* ignored by a page that waits for it, for any links, joiners, messages lost and
\* restarts: what joining at last rests on.
THEOREM InvitesAlwaysBacked == JoinSpec => []InvitesAreBacked
<1>1. JoinInit => InvitesInv
  <2> SUFFICES ASSUME JoinInit PROVE InvitesInv
    BY Zenon
  <2>1. /\ page = [j \in Joiner |-> [status |-> "", retrying |-> TRUE]] /\ joined = [j \in Joiner |-> {}]
        /\ activeServer \in JoinServer /\ restarts = 0 /\ answering = NoTask /\ messages = {}
    BY Zenon DEF JoinInit
  <2> QED
    BY <2>1, Zenon DEF InvitesInv, InvitesAreBacked
<1>2. InvitesInv => InvitesAreBacked
  BY Zenon DEF InvitesInv
<1> QED
  BY <1>1, <1>2, InvitesStep, PTL DEF JoinSpec

-----------------------------------------------------------------------------
(* Folds.                                                                  *)

\* A set of numbers has a least one.
LEMMA LeastNumber ==
    ASSUME NEW H \in SUBSET Nat, H # {}
    PROVE  \E p \in H : \A q \in H : p <= q
<1>1. PICK p \in H : \A q \in H : ~ (<<q, p>> \in OpToRel(<, Nat))
  BY NatLessThanWellFounded, WFMin, Zenon
<1>2. \A q \in H : ~ (q < p)
  BY <1>1, Zenon DEF OpToRel
<1>3. QED
  BY <1>2

\* Induction up to a number, for a set of numbers.
LEMMA UpTo ==
    ASSUME NEW l \in Nat, NEW G, 0 \in G,
           \A n \in 1 .. l : n - 1 \in G => n \in G
    PROVE  \A n \in 0 .. l : n \in G
<1> DEFINE H == {n \in 0 .. l : n \notin G}
<1> SUFFICES ASSUME H # {} PROVE FALSE
  BY Zenon
<1>1. H \in SUBSET Nat
  OBVIOUS
<1>2. PICK n \in H : \A q \in H : n <= q
  BY <1>1, LeastNumber, Zenon
<1>3. n \in 1 .. l /\ n - 1 \in 0 .. l /\ n - 1 \notin H
  BY <1>2
<1> QED
  BY <1>3, Zenon

\* f is the fold of step over the first n numbers.
IsFold(f, n, init, step) ==
    f = [i \in 0 .. n |-> IF i = 0 THEN init ELSE step[<<f[i - 1], i>>]]

\* A fold that stays in a set exists.
LEMMA FoldExists ==
    ASSUME NEW S, NEW l \in Nat, NEW init \in S, NEW step \in [S \X (1 .. l) -> S]
    PROVE  \E f : f \in [0 .. l -> S] /\ IsFold(f, l, init, step)
<1> DEFINE G == {n \in 0 .. l : \E f : f \in [0 .. n -> S] /\ IsFold(f, n, init, step)}
<1>1. 0 \in G
  <2> DEFINE f == [i \in 0 .. 0 |-> init]
  <2>1. f \in [0 .. 0 -> S] /\ f = [i \in 0 .. 0 |-> IF i = 0 THEN init ELSE step[<<f[i - 1], i>>]]
    OBVIOUS
  <2>2. 0 \in 0 .. l
    OBVIOUS
  <2> QED
    BY <2>1, <2>2, Zenon DEF IsFold
<1>2. ASSUME NEW n \in 1 .. l, n - 1 \in G PROVE n \in G
  <2>1. PICK f : f \in [0 .. n - 1 -> S] /\ IsFold(f, n - 1, init, step)
    BY <1>2, Zenon
  <2> DEFINE g == [i \in 0 .. n |-> IF i = n THEN step[<<f[n - 1], n>>] ELSE f[i]]
  <2>2. step[<<f[n - 1], n>>] \in S
    BY <2>1
  <2>3. g \in [0 .. n -> S]
    BY <2>1, <2>2, SMTT(30)
  <2>4. ASSUME NEW i \in 0 .. n
        PROVE  g[i] = IF i = 0 THEN init ELSE step[<<g[i - 1], i>>]
    <3>1. CASE i = n
      <4>1. n - 1 \in 0 .. n /\ n - 1 # n /\ n # 0 /\ n \in 0 .. n
        BY SMTT(30)
      <4>2. g[n - 1] = f[n - 1] /\ g[n] = step[<<f[n - 1], n>>]
        BY <4>1, Zenon
      <4> QED
        BY <3>1, <4>1, <4>2, Zenon
    <3>2. CASE i = 0
      BY <2>1, <3>2 DEF IsFold
    <3>3. CASE i # n /\ i # 0
      <4>1. i \in 0 .. n - 1 /\ i - 1 \in 0 .. n - 1 /\ i - 1 # n
        BY <3>3
      <4>2. f[i] = step[<<f[i - 1], i>>]
        BY <2>1, <3>3, <4>1, Zenon DEF IsFold
      <4>3. g[i] = f[i] /\ g[i - 1] = f[i - 1]
        BY <3>3, <4>1
      <4> QED
        BY <3>3, <4>2, <4>3, Zenon
    <3> QED
      BY <3>1, <3>2, <3>3, Zenon
  <2>5. IsFold(g, n, init, step)
    BY <2>4, Zenon DEF IsFold
  <2>6. n \in 0 .. l
    OBVIOUS
  <2> QED
    BY <2>3, <2>5, <2>6, Zenon
<1> HIDE DEF G
<1>3. l \in G
  BY <1>1, <1>2, UpTo, SMTT(30)
<1> QED
  BY <1>3, Zenon DEF G

-----------------------------------------------------------------------------
(* Fetching the history (HistorySync): what a stream carries.              *)

\* The events of an author after the first n.
ChainTail(a, n) == [i \in 1 .. Chains[a] - n |-> Ev(a, n + i)]

LEMMA EvFacts ==
    ASSUME NEW a \in Writer
    PROVE  /\ Chains[a] \in Nat
           /\ \A n \in 1 .. Chains[a] : Ev(a, n) \in HistoryEvent
           /\ \A n : Ev(a, n).author = a /\ Ev(a, n).seq = n
BY HistoryAssumption DEF HistoryEvent, Ev

LEMMA EventFacts ==
    ASSUME NEW e \in HistoryEvent
    PROVE  /\ e.author \in Writer /\ e.seq \in 1 .. Chains[e.author] /\ e = Ev(e.author, e.seq)
           /\ Chains[e.author] \in Nat
<1>3. PICK a \in Writer : e \in {Ev(a, n) : n \in 1 .. Chains[a]}
  BY Zenon DEF HistoryEvent
<1>1. PICK n \in 1 .. Chains[a] : e = Ev(a, n)
  BY <1>3, Zenon
<1>2. e.author = a /\ e.seq = n /\ Chains[a] \in Nat
  BY <1>1, HistoryAssumption, Zenon DEF Ev
<1> QED
  BY <1>1, <1>2, Zenon

LEMMA TailHas ==
    ASSUME NEW a \in Writer, NEW n \in Nat
    PROVE  /\ ChainTail(a, n) \in Seq(HistoryEvent)
           /\ \A k \in n + 1 .. Chains[a] : \E i \in 1 .. Len(ChainTail(a, n)) : ChainTail(a, n)[i] = Ev(a, k)
<1> DEFINE m == IF Chains[a] < n THEN 0 ELSE Chains[a] - n
           c == [i \in 1 .. m |-> Ev(a, n + i)]
<1>1. Chains[a] \in Nat /\ m \in Nat
  BY EvFacts
<1>2. ChainTail(a, n) = c
  <2>1. 1 .. Chains[a] - n = 1 .. m
    BY <1>1, SMTT(30)
  <2> QED
    BY <2>1, Zenon DEF ChainTail
<1>3. ASSUME NEW i \in 1 .. m PROVE Ev(a, n + i) \in HistoryEvent
  <2>1. n + i \in 1 .. Chains[a]
    BY <1>1
  <2> QED
    BY <2>1, EvFacts, Zenon
<1>4. c \in [1 .. m -> HistoryEvent]
  BY <1>3, Zenon
<1> HIDE DEF m
<1>5. c \in Seq(HistoryEvent) /\ Len(c) = m
  <2> HIDE DEF c
  <2> QED
    BY <1>1, <1>4
<1>6. ASSUME NEW k \in n + 1 .. Chains[a] PROVE \E i \in 1 .. m : c[i] = Ev(a, k)
  <2>1. k - n \in 1 .. m /\ n + (k - n) = k
    BY <1>1 DEF m
  <2>2. c[k - n] = Ev(a, k)
    BY <2>1, Zenon
  <2> QED
    BY <2>1, <2>2, Zenon
<1> QED
  BY <1>2, <1>5, <1>6, Zenon

LEMMA OrderFacts ==
    ASSUME NEW order \in Orders
    PROVE  /\ order \in Seq(Writer) /\ Len(order) \in Nat
           /\ \A a \in Writer : \E i \in 1 .. Len(order) : order[i] = a
<1>1. Cardinality(Writer) \in Nat
  BY HistoryAssumption, FS_CardinalityType, Zenon
<1>2. order \in [1 .. Cardinality(Writer) -> Writer] /\ \A a \in Writer : \E i \in DOMAIN order : order[i] = a
  BY Zenon DEF Orders
<1> QED
  BY <1>1, <1>2

\* The stream has the events after the heads of every author.
LEMMA DeltaFacts ==
    ASSUME NEW heads \in [Writer -> Nat], NEW order \in Orders
    PROVE  /\ DeltaSince(heads, order) \in Seq(HistoryEvent)
           /\ \A a \in Writer : \A k \in heads[a] + 1 .. Chains[a] :
                 \E i \in 1 .. Len(DeltaSince(heads, order)) : DeltaSince(heads, order)[i] = Ev(a, k)
<1> DEFINE S == Seq(HistoryEvent)
           l == Len(order)
           c(n) == ChainTail(order[n], heads[order[n]])
           step == [p \in S \X (1 .. l) |-> p[1] \o c(p[2])]
           D(f) == f = [n \in 0 .. l |-> IF n = 0 THEN <<>> ELSE f[n - 1] \o c(n)]
           g == CHOOSE f : D(f)
<1>1. l \in Nat /\ \A i \in 1 .. l : order[i] \in Writer /\ heads[order[i]] \in Nat
  BY OrderFacts, SMTT(30)
<1>2. \A i \in 1 .. l : c(i) \in S
  BY <1>1, TailHas, Zenon
<1>13. DeltaSince(heads, order) = g[l]
  BY Zenon DEF DeltaSince, ChainTail
<1>14. \A n \in 1 .. l : \A k \in heads[order[n]] + 1 .. Chains[order[n]] :
          \E i \in 1 .. Len(c(n)) : c(n)[i] = Ev(order[n], k)
  BY <1>1, TailHas, Zenon
<1> HIDE DEF c, l
<1>3. step \in [S \X (1 .. l) -> S] /\ <<>> \in S
  BY <1>2
<1>4. PICK f : f \in [0 .. l -> S] /\ IsFold(f, l, <<>>, step)
  <2> HIDE DEF S, step
  <2> QED
    BY <1>1, <1>3, FoldExists, ZenonT(30)
<1>5. D(f)
  <2> HIDE DEF S
  <2>1. ASSUME NEW n \in 0 .. l, n # 0 PROVE step[<<f[n - 1], n>>] = f[n - 1] \o c(n)
    <3>1. n - 1 \in 0 .. l /\ n \in 1 .. l
      BY <1>1, <2>1
    <3>2. <<f[n - 1], n>> \in S \X (1 .. l)
      BY <1>4, <3>1, Zenon
    <3> QED
      BY <3>2, Zenon
  <2> HIDE DEF step
  <2>2. f = [n \in 0 .. l |-> IF n = 0 THEN <<>> ELSE step[<<f[n - 1], n>>]]
    BY <1>4, Zenon DEF IsFold
  <2> QED
    BY <2>1, <2>2, Zenon
<1>7. D(g)
  <2> HIDE DEF D
  <2> QED
    BY <1>5, Zenon
<1> HIDE DEF S, g, step
<1>8. g[0] = <<>> /\ \A n \in 1 .. l : g[n] = g[n - 1] \o c(n)
  <2>1. 0 \in 0 .. l /\ \A n \in 1 .. l : n \in 0 .. l /\ n # 0
    BY <1>1
  <2> QED
    BY <1>7, <2>1, Zenon
<1> DEFINE Has(s, e) == \E i \in 1 .. Len(s) : s[i] = e
           P(n) == g[n] \in S /\ \A j \in 1 .. n : \A k \in heads[order[j]] + 1 .. Chains[order[j]] :
                                    Has(g[n], Ev(order[j], k))
           G == {n \in 0 .. l : P(n)}
<1>9. ASSUME NEW s \in S, NEW t \in S, NEW e PROVE Has(s, e) \/ Has(t, e) => Has(s \o t, e)
  <2>1. s \in Seq(HistoryEvent) /\ t \in Seq(HistoryEvent)
    BY Zenon DEF S
  <2>2. /\ Len(s \o t) = Len(s) + Len(t) /\ Len(s) \in Nat /\ Len(t) \in Nat
        /\ \A i \in 1 .. Len(s) : (s \o t)[i] = s[i]
        /\ \A i \in 1 .. Len(t) : (s \o t)[Len(s) + i] = t[i]
    BY <2>1
  <2>3. ASSUME NEW i \in 1 .. Len(s), s[i] = e PROVE Has(s \o t, e)
    <3>1. i \in 1 .. Len(s \o t)
      BY <2>2, SMTT(30)
    <3> QED
      BY <2>2, <2>3, <3>1, Zenon
  <2>4. ASSUME NEW i \in 1 .. Len(t), t[i] = e PROVE Has(s \o t, e)
    <3>1. Len(s) + i \in 1 .. Len(s \o t)
      BY <2>2, SMTT(30)
    <3> QED
      BY <2>2, <2>4, <3>1, Zenon
  <2> QED
    BY <2>3, <2>4, Zenon
<1>10. 0 \in G
  <2>1. 0 \in 0 .. l /\ \A j \in 1 .. 0 : FALSE
    BY <1>1
  <2>2. P(0)
    BY <1>3, <1>8, <2>1, Zenon
  <2> QED
    BY <2>1, <2>2, Zenon
<1>15. \A n \in 1 .. l : \A k \in heads[order[n]] + 1 .. Chains[order[n]] : Has(c(n), Ev(order[n], k))
  BY <1>14, Zenon
<1> HIDE DEF Has
<1>11. ASSUME NEW n \in 1 .. l, n - 1 \in G PROVE n \in G
  <2>1. n \in 0 .. l /\ \A j \in 1 .. n : j = n \/ j \in 1 .. n - 1
    BY <1>1
  <2>2. g[n] = g[n - 1] \o c(n) /\ P(n - 1) /\ c(n) \in S
    BY <1>2, <1>8, <1>11, Zenon
  <2>3. g[n] \in S
    BY <2>2, SMTT(30) DEF S
  <2>4. ASSUME NEW j \in 1 .. n, NEW k \in heads[order[j]] + 1 .. Chains[order[j]]
        PROVE  Has(g[n], Ev(order[j], k))
    <3>1. CASE j = n
      BY <1>9, <1>15, <2>2, <3>1, Zenon
    <3>2. CASE j \in 1 .. n - 1
      BY <1>9, <2>2, <3>2, Zenon
    <3> QED
      BY <2>1, <3>1, <3>2, Zenon
  <2> QED
    BY <2>1, <2>3, <2>4, Zenon
<1>12. P(l)
  <2> HIDE DEF G
  <2>1. \A n \in 0 .. l : n \in G
    BY <1>1, <1>10, <1>11, UpTo, ZenonT(30)
  <2>2. l \in 0 .. l
    BY <1>1
  <2> QED
    BY <2>1, <2>2, Zenon DEF G
<1>16. ASSUME NEW a \in Writer, NEW k \in heads[a] + 1 .. Chains[a] PROVE Has(g[l], Ev(a, k))
  <2>1. PICK j \in 1 .. l : order[j] = a
    BY OrderFacts, Zenon DEF l
  <2> QED
    BY <1>12, <2>1, Zenon
<1> QED
  BY <1>12, <1>13, <1>16, Zenon DEF Has, S

LEMMA BatchFacts ==
    ASSUME NEW delta \in Seq(HistoryEvent)
    PROVE  /\ \A b \in Batches(delta) : b \subseteq HistoryEvent
           /\ \A i \in 1 .. Len(delta) : \E b \in Batches(delta) : delta[i] \in b
<1> DEFINE batch(k) == {delta[i] : i \in {i \in DOMAIN delta : (i - 1) \div BatchSize = k}}
           last == IF delta = << >> THEN 0 ELSE (Len(delta) - 1) \div BatchSize
<1>1. Batches(delta) = {batch(k) : k \in 0 .. last}
  BY Zenon DEF Batches
<1>2. DOMAIN delta = 1 .. Len(delta) /\ Len(delta) \in Nat /\ \A i \in 1 .. Len(delta) : delta[i] \in HistoryEvent
  OBVIOUS
<1>3. \A k : batch(k) \subseteq HistoryEvent
  BY <1>2, Zenon
<1>4. ASSUME NEW i \in 1 .. Len(delta) PROVE \E k \in 0 .. last : delta[i] \in batch(k)
  <2> DEFINE k == (i - 1) \div BatchSize
  <2>1. BatchSize \in Nat \ {0} /\ i - 1 \in Nat /\ Len(delta) - 1 \in Nat /\ i - 1 <= Len(delta) - 1
    BY <1>2, HistoryAssumption
  <2>2. ASSUME NEW x \in Nat, NEW y \in Nat, NEW d \in Nat \ {0}, x <= y
        PROVE  x \div d \in 0 .. y \div d
    BY <2>2
  <2>3. k \in 0 .. (Len(delta) - 1) \div BatchSize
    BY <2>1, <2>2, Zenon
  <2>4. delta # << >>
    BY <1>2
  <2>5. delta[i] \in batch(k)
    BY <1>2, Zenon
  <2> QED
    BY <2>3, <2>4, <2>5, Zenon
<1> HIDE DEF batch, last
<1> QED
  BY <1>1, <1>3, <1>4, Zenon

-----------------------------------------------------------------------------
(* Fetching the history: what the client asks for.                         *)

\* What the client may find in its messages.  A request is for what is missing: its heads
\* end before every event that has not arrived.
GoodMessage(m) ==
    /\ m.kind = "SyncRequestV2" =>
        m.heads \in [Writer -> Nat] /\ \A e \in HistoryEvent \ arrived : m.heads[e.author] < e.seq
    /\ m.kind = "SyncBatchV2" => m.events \subseteq HistoryEvent

StreamInv == arrived \subseteq HistoryEvent /\ \A m \in network : GoodMessage(m)

\* The heads of the DAG end before every event that has not arrived.
LEMMA HeadsAreLow ==
    ASSUME arrived \subseteq HistoryEvent
    PROVE  /\ HeadsSummary \in [Writer -> Nat]
           /\ \A e \in HistoryEvent \ arrived : HeadsSummary[e.author] < e.seq
<1> DEFINE own(a) == {e \in dag : e.author = a}
<1>1. dag \subseteq HistoryEvent /\ \A e \in dag : \A n \in 1 .. e.seq : Ev(e.author, n) \in arrived
  BY Zenon DEF dag
<1>2. ASSUME NEW a \in Writer, NEW l \in Nat, \A e \in own(a) : e.seq \in 1 .. l
      PROVE  Cardinality(own(a)) \in Nat /\ Cardinality(own(a)) <= l
  <2> DEFINE T == {Ev(a, n) : n \in 1 .. l}
  <2>1. IsFiniteSet(1 .. l) /\ Cardinality(1 .. l) = l
    BY FS_Interval
  <2>2. IsFiniteSet(T) /\ Cardinality(T) <= l
    <3> DEFINE f == [n \in 1 .. l |-> Ev(a, n)]
    <3>1. f \in Surjection(1 .. l, T)
      BY Zenon DEF Surjection
    <3> HIDE DEF f, T
    <3>2. IsFiniteSet(T) /\ Cardinality(T) <= Cardinality(1 .. l)
      BY <2>1, <3>1, FS_Surjection, Zenon
    <3> QED
      BY <2>1, <3>2, Zenon
  <2>3. own(a) \subseteq T
    BY <1>1, <1>2, EventFacts, Zenon
  <2> HIDE DEF T, own
  <2> QED
    BY <2>2, <2>3, FS_Subset, FS_CardinalityType
<1>3. ASSUME NEW a \in Writer PROVE HeadsSummary[a] = Cardinality(own(a))
  BY Zenon DEF HeadsSummary
<1>4. ASSUME NEW a \in Writer PROVE Cardinality(own(a)) \in Nat
  <2>1. \A e \in own(a) : e.seq \in 1 .. Chains[a]
    BY <1>1, EventFacts, Zenon
  <2> QED
    BY <1>2, <2>1, EvFacts, Zenon
<1>5. HeadsSummary \in [Writer -> Nat]
  BY <1>4, Zenon DEF HeadsSummary
<1>6. ASSUME NEW e \in HistoryEvent \ arrived PROVE HeadsSummary[e.author] < e.seq
  <2>1. e.author \in Writer /\ e.seq \in Nat /\ e.seq > 0 /\ e = Ev(e.author, e.seq)
    BY EventFacts
  <2>2. ASSUME NEW f \in own(e.author) PROVE f.seq \in 1 .. e.seq - 1
    <3>1. f.seq \in Nat /\ f.seq > 0 /\ f.author = e.author /\ f \in dag
      BY <1>1, EventFacts
    <3>2. e.seq \notin 1 .. f.seq
      BY <1>1, <2>1, <3>1, Zenon
    <3> QED
      BY <2>1, <3>1, <3>2, SMTT(30)
  <2>3. e.seq - 1 \in Nat
    BY <2>1
  <2>4. Cardinality(own(e.author)) \in Nat /\ Cardinality(own(e.author)) <= e.seq - 1
    BY <1>2, <2>1, <2>2, <2>3, Zenon
  <2> HIDE DEF own
  <2> QED
    BY <1>3, <2>1, <2>4, SMTT(30)
<1> QED
  BY <1>5, <1>6, Zenon

LEMMA StreamInit == HistoryInit => StreamInv
BY Zenon DEF HistoryInit, StreamInv

\* Messages stay good as events arrive.
LEMMA GoodStays ==
    ASSUME NEW m, GoodMessage(m), arrived \subseteq arrived'
    PROVE  GoodMessage(m)'
<1>1. \A e \in HistoryEvent \ arrived' : e \in HistoryEvent \ arrived
  BY Zenon
<1> QED
  BY <1>1, Zenon DEF GoodMessage

LEMMA StreamStep == StreamInv /\ [HistoryNext]_historyVars => StreamInv'
<1> SUFFICES ASSUME StreamInv, [HistoryNext]_historyVars PROVE StreamInv'
  BY Zenon
<1>1. arrived \subseteq HistoryEvent /\ \A m \in network : GoodMessage(m)
  BY Zenon DEF StreamInv
<1>2. ASSUME arrived \subseteq arrived', arrived' \subseteq HistoryEvent,
             \A m \in network' : m \in network \/ GoodMessage(m)'
      PROVE  StreamInv'
  <2>1. \A m \in network : GoodMessage(m)'
    BY <1>1, <1>2, GoodStays, Zenon
  <2> QED
    BY <1>2, <2>1, Zenon DEF StreamInv
<1>3. ASSUME NeighborUp PROVE StreamInv'
  <2>1. arrived' = arrived
    BY <1>3, Zenon DEF NeighborUp
  <2>2. ASSUME NEW m \in network', m \notin network PROVE GoodMessage(m)'
    <3>1. PICK p \in Provider : m = [kind |-> "SyncRequestV2", to |-> p, heads |-> HeadsSummary]
      BY <1>3, <2>2, Zenon DEF NeighborUp
    <3>2. m.kind = "SyncRequestV2" /\ m.heads = HeadsSummary
      BY <3>1, Zenon
    <3> QED
      BY <1>1, <2>1, <3>2, HeadsAreLow, Zenon DEF GoodMessage
  <2> QED
    BY <1>1, <1>2, <2>1, <2>2, Zenon
<1>4. ASSUME NEW n \in network, SyncRequestV2(n) PROVE StreamInv'
  <2>1. PICK order \in Orders :
           network' = (network \ {n}) \cup
              ({[kind |-> "SyncBatchV2", from |-> n.to, events |-> b] : b \in Batches(DeltaSince(n.heads, order))}
                  \cup {Marker(n.to, DeltaSince(n.heads, order))})
    BY <1>4, Zenon DEF SyncRequestV2
  <2>2. n.heads \in [Writer -> Nat] /\ arrived' = arrived
    BY <1>1, <1>4, ZenonT(30) DEF SyncRequestV2, GoodMessage
  <2>3. \A b \in Batches(DeltaSince(n.heads, order)) : b \subseteq HistoryEvent
    BY <2>2, DeltaFacts, BatchFacts, Zenon
  <2>4. ASSUME NEW m \in network', m \notin network PROVE GoodMessage(m)'
    <3>1. CASE m = Marker(n.to, DeltaSince(n.heads, order))
      <4>1. m.kind = "HistorySyncComplete"
        BY <3>1, Zenon DEF Marker
      <4> QED
        BY <4>1, Zenon DEF GoodMessage
    <3>2. ASSUME NEW b \in Batches(DeltaSince(n.heads, order)),
                 m = [kind |-> "SyncBatchV2", from |-> n.to, events |-> b]
          PROVE  GoodMessage(m)'
      <4>1. m.kind = "SyncBatchV2" /\ m.events = b
        BY <3>2, Zenon
      <4> QED
        BY <2>3, <4>1, Zenon DEF GoodMessage
    <3> QED
      BY <2>1, <2>4, <3>1, <3>2, ZenonT(30)
  <2> QED
    BY <1>1, <1>2, <2>2, <2>4, Zenon
<1>5. ASSUME NEW n \in network, SyncBatchV2(n) PROVE StreamInv'
  <2>1. arrived' = arrived \cup n.events /\ network' = network \ {n} /\ n.kind = "SyncBatchV2"
    BY <1>5, Zenon DEF SyncBatchV2
  <2>2. n.events \subseteq HistoryEvent
    BY <1>1, <2>1, Zenon DEF GoodMessage
  <2> QED
    BY <1>1, <1>2, <2>1, <2>2, ZenonT(30)
<1>6. ASSUME NEW n \in network, HistorySyncComplete(n) \/ Lose(n) PROVE StreamInv'
  <2>1. arrived' = arrived /\ network' = network \ {n}
    BY <1>6, Zenon DEF HistorySyncComplete, Lose
  <2> QED
    BY <1>1, <1>2, <2>1, Zenon
<1>7. ASSUME NEW p \in Provider, Reconnect(p) PROVE StreamInv'
  <2>1. arrived' = arrived /\ network' = network
    BY <1>7, Zenon DEF Reconnect
  <2> QED
    BY <1>1, <1>2, <2>1, Zenon
<1>8. CASE UNCHANGED historyVars
  <2>1. arrived' = arrived /\ network' = network
    BY <1>8, Zenon DEF historyVars
  <2> QED
    BY <1>1, <1>2, <2>1, Zenon
<1> QED
  BY <1>3, <1>4, <1>5, <1>6, <1>7, <1>8, ZenonT(30) DEF HistoryNext, Handle

\* Whenever a provider answers a request, whatever has arrived since it was sent and
\* whichever order the authors come in, the batches of the answer have every event the
\* client lacks at that moment.
AnswersCover ==
    \A m \in network : m.kind = "SyncRequestV2" =>
        \A order \in Orders :
            HistoryEvent \ arrived \subseteq UNION Batches(DeltaSince(m.heads, order))

\* Every request of a client asks for all that has not arrived, and its answer has all of
\* it, for any number of authors and providers, any chains, batch size and messages lost:
\* heads_summary counts only what hangs together, so nothing is skipped.
THEOREM AnswersAlwaysCover == HistorySpec => []AnswersCover
<1>1. StreamInv => AnswersCover
  <2> SUFFICES ASSUME StreamInv, NEW m \in network, m.kind = "SyncRequestV2", NEW order \in Orders,
                      NEW e \in HistoryEvent, e \notin arrived
               PROVE  \E b \in Batches(DeltaSince(m.heads, order)) : e \in b
    BY Zenon DEF AnswersCover
  <2>1. m.heads \in [Writer -> Nat] /\ m.heads[e.author] < e.seq
    BY Zenon DEF StreamInv, GoodMessage
  <2>2. e.author \in Writer /\ e.seq \in 1 .. Chains[e.author] /\ e = Ev(e.author, e.seq) /\ Chains[e.author] \in Nat
    BY EventFacts, Zenon
  <2>3. e.seq \in m.heads[e.author] + 1 .. Chains[e.author]
    BY <2>1, <2>2
  <2> DEFINE delta == DeltaSince(m.heads, order)
  <2>4. delta \in Seq(HistoryEvent) /\ \E i \in 1 .. Len(delta) : delta[i] = e
    <3>1. /\ delta \in Seq(HistoryEvent)
          /\ \A a \in Writer : \A k \in m.heads[a] + 1 .. Chains[a] :
                \E i \in 1 .. Len(delta) : delta[i] = Ev(a, k)
      BY <2>1, DeltaFacts, Zenon
    <3> HIDE DEF delta
    <3> QED
      BY <2>2, <2>3, <3>1, Zenon
  <2> HIDE DEF delta
  <2>5. \E b \in Batches(delta) : e \in b
    BY <2>4, BatchFacts, Zenon
  <2> QED
    BY <2>5, Zenon DEF delta
<1> QED
  BY <1>1, StreamInit, StreamStep, PTL DEF HistorySpec

-----------------------------------------------------------------------------
(* Fetching the history: what is announced.                                *)

\* HistorySynced is published at most once for a provider and generation, however many
\* markers come, and only for providers that hold the permission in the client's state.
AnnouncedOnce ==
    /\ \A s, t \in announced : s.provider = t.provider /\ s.generation = t.generation => s = t
    /\ \A s \in announced : Trusted(s.provider)

AnnouncedInv == AnnouncedOnce /\ \A s \in announced : <<s.provider, s.generation>> \in seen

\* A provider stays trusted as events arrive.
LEMMA TrustStays ==
    ASSUME arrived \subseteq arrived', NEW p, Trusted(p)
    PROVE  Trusted(p)'
<1>1. dag \subseteq dag'
  BY Zenon DEF dag
<1> QED
  BY <1>1, Zenon DEF Trusted

\* The client announces a history once, for any number of providers, generations and
\* markers: record_history_marker and the check of the permission are one step.
THEOREM HistoriesAreAnnouncedOnce == HistorySpec => []AnnouncedOnce
<1>1. HistoryInit => AnnouncedInv
  BY Zenon DEF HistoryInit, AnnouncedInv, AnnouncedOnce
<1>2. AnnouncedInv /\ [HistoryNext]_historyVars => AnnouncedInv'
  <2> SUFFICES ASSUME AnnouncedInv, [HistoryNext]_historyVars PROVE AnnouncedInv'
    BY Zenon
  <2>1. /\ \A s, t \in announced : s.provider = t.provider /\ s.generation = t.generation => s = t
        /\ \A s \in announced : Trusted(s.provider) /\ <<s.provider, s.generation>> \in seen
    BY Zenon DEF AnnouncedInv, AnnouncedOnce
  <2>2. ASSUME arrived \subseteq arrived', announced' = announced, seen' = seen PROVE AnnouncedInv'
    <3>1. \A s \in announced : Trusted(s.provider)'
      BY <2>1, <2>2, TrustStays, Zenon
    <3> QED
      BY <2>1, <2>2, <3>1, Zenon DEF AnnouncedInv, AnnouncedOnce
  <2>3. ASSUME NEW m \in network, HistorySyncComplete(m) PROVE AnnouncedInv'
    <3>1. arrived' = arrived
      BY <2>3, Zenon DEF HistorySyncComplete
    <3>2. CASE UNCHANGED <<seen, announced>>
      BY <2>2, <3>1, <3>2, Zenon
    <3>3. CASE Trusted(m.from) /\ Complete(m.from, m.generation) /\ <<m.from, m.generation>> \notin seen
      <4>1. PICK x : /\ announced' = announced \cup {x} /\ seen' = seen \cup {<<m.from, m.generation>>}
                     /\ x.provider = m.from /\ x.generation = m.generation
        <5> DEFINE y == [provider |-> m.from, generation |-> m.generation,
                         still_pending |-> Cardinality({q \in peers : Trusted(q)}
                                                       \ ({s.provider : s \in announced} \cup {m.from}))]
        <5>1. announced' = announced \cup {y} /\ seen' = seen \cup {<<m.from, m.generation>>}
          BY <3>3, ZenonT(30) DEF Complete
        <5>2. y.provider = m.from /\ y.generation = m.generation
          BY Zenon
        <5> HIDE DEF y
        <5> QED
          BY <5>1, <5>2, Zenon
      <4>2. \A s \in announced' : Trusted(s.provider)'
        BY <2>1, <3>1, <3>3, <4>1, TrustStays, ZenonT(30)
      <4>3. \A s \in announced : <<s.provider, s.generation>> # <<m.from, m.generation>>
        BY <2>1, <3>3, Zenon
      <4>4. \A s \in announced' : <<s.provider, s.generation>> \in seen'
        BY <2>1, <4>1, Zenon
      <4>5. ASSUME NEW s \in announced', NEW t \in announced', s.provider = t.provider,
                   s.generation = t.generation
            PROVE  s = t
        BY <2>1, <4>1, <4>3, <4>5, Zenon
      <4> QED
        BY <4>2, <4>4, <4>5, Zenon DEF AnnouncedInv, AnnouncedOnce
    <3> QED
      BY <2>3, <3>2, <3>3, Zenon DEF HistorySyncComplete, Complete
  <2>4. ASSUME NEW m \in network, SyncBatchV2(m) PROVE AnnouncedInv'
    BY <2>2, <2>4, Zenon DEF SyncBatchV2
  <2>5. ASSUME NEW m \in network, SyncRequestV2(m) \/ Lose(m) PROVE AnnouncedInv'
    BY <2>2, <2>5, Zenon DEF SyncRequestV2, Lose
  <2>6. ASSUME NeighborUp PROVE AnnouncedInv'
    BY <2>2, <2>6, Zenon DEF NeighborUp
  <2>7. ASSUME NEW p \in Provider, Reconnect(p) PROVE AnnouncedInv'
    BY <2>2, <2>7, Zenon DEF Reconnect
  <2>8. CASE UNCHANGED historyVars
    BY <2>2, <2>8, Zenon DEF historyVars
  <2> QED
    BY <2>3, <2>4, <2>5, <2>6, <2>7, <2>8, ZenonT(30) DEF HistoryNext, Handle
<1> QED
  BY <1>1, <1>2, PTL DEF HistorySpec, AnnouncedInv
=============================================================================
