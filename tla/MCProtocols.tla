---------------------------- MODULE MCProtocols ----------------------------
(***************************************************************************)
(* For TLC: who tells whom what, and whether the answer comes, among the   *)
(* actors of one process (mailboxes and shutdown, a view derived from a    *)
(* state actor) and among peers (joining by a link, fetching the history). *)
(* The models share no state, so a behaviour is one of a single component, *)
(* chosen at the start, while the others stay as they were.                *)
(***************************************************************************)
EXTENDS DerivedState, ActorSystem, HistorySync, Joining

VARIABLE component

protocolVars == <<component, vars, actorVars, historyVars, joinVars>>

ProtocolInit ==
    /\ component \in {"derived", "system", "history", "join"}
    /\ Init /\ ActorInit /\ HistoryInit /\ JoinInit
    /\ component # "join" => activeServer = "a"

ProtocolNext ==
    /\ \/ component = "derived" /\ Next
       \/ component = "system" /\ ActorNext
       \/ component = "history" /\ HistoryNext
       \/ component = "join" /\ JoinNext
    /\ component # "derived" => UNCHANGED vars
    /\ component # "system" => UNCHANGED actorVars
    /\ component # "history" => UNCHANGED historyVars
    /\ component # "join" => UNCHANGED joinVars
    /\ UNCHANGED component

\* The fairness of the component that runs.
ProtocolFairness ==
    /\ WF_vars(component = "derived" /\ SourceHandle)
    /\ WF_vars(component = "derived" /\ SourceIdle)
    /\ WF_vars(component = "derived" /\ Started)
    /\ WF_vars(component = "derived" /\ DerivedHandle)
    /\ WF_vars(component = "derived" /\ DerivedIdle)
    /\ WF_vars(component = "derived" /\ TaskStep)
    /\ WF_vars(component = "derived" /\ Read)
    /\ \A a \in Actor : WF_actorVars(component = "system" /\ ActorStep(a))
    /\ WF_actorVars(component = "system" /\ SystemStep)
    /\ WF_actorVars(component = "system" /\ ShutdownEnds)
    /\ WF_historyVars(component = "history" /\ NeighborUp)
    /\ WF_historyVars(component = "history" /\ \E m \in network : Handle(m))
    /\ WF_joinVars(component = "join" /\ PersistJoinLinks)
    /\ WF_joinVars(component = "join" /\ Respond)
    /\ WF_joinVars(component = "join" /\ GrantSendMessages)
    /\ \A j \in Joiner : WF_joinVars(component = "join" /\ Retry(j))
    /\ WF_joinVars(component = "join" /\ \E m \in messages : JoinRequest(m))
    /\ WF_joinVars(component = "join" /\ \E m \in messages : JoinAnswer(m))

ProtocolSpec == ProtocolInit /\ [][ProtocolNext]_protocolVars /\ ProtocolFairness

-----------------------------------------------------------------------------
(* The selector does not tell versions 1 and 2 apart, so a recomputation   *)
(* can yield the value already cached.                                     *)
Selector == [n \in 0 .. MaxMutations |-> CASE n = 0 -> "a" [] n \in 1 .. 2 -> "b" [] OTHER -> "c"]

(* Handlers of p ask q.                                                    *)
MCDownstream == [a \in Actor |-> IF a = "p" THEN "q" ELSE Nobody]

MCChains == [o |-> 3, q |-> 1]
MCGrant == [o |-> Ev("o", 1), w |-> Ev("o", 2)]

MCServerOf == [l \in Link |-> "a"]
MCTokenOf == [j \in Joiner |-> "l"]
=============================================================================
