------------------------------- MODULE MCDags -------------------------------
(***************************************************************************)
(* For TLC: where events are kept, which is a client's DAG with its        *)
(* pending buffer, the replay worker's DAGs of many servers, and the       *)
(* storage worker's table.  The models share no state, so a behaviour is   *)
(* one of a single component, chosen at the start, while the others stay   *)
(* as they were.                                                           *)
(***************************************************************************)
EXTENDS ManagedDag, ReplayWorker, EventStore

VARIABLE component

dagsVars == <<component, managedVars, replayVars, storeVars>>

DagsInit ==
    component \in {"client", "replay", "store"} /\ ManagedInit /\ ReplayInit /\ StoreInit

DagsNext ==
    /\ \/ component = "client" /\ ManagedNext /\ UNCHANGED <<replayVars, storeVars>>
       \/ component = "replay" /\ ReplayNext /\ UNCHANGED <<managedVars, storeVars>>
       \/ component = "store" /\ StoreNext /\ UNCHANGED <<managedVars, replayVars>>
    /\ UNCHANGED component

\* The fairness of the component that runs.
DagsFairness ==
    /\ WF_managedVars(component = "client" /\ Drain)
    /\ \A e \in Event : WF_managedVars(component = "client" /\ Receive(e))
    /\ WF_storeVars(component = "store" /\ History)
    /\ WF_storeVars(component = "store" /\ SyncOnce)

DagsSpec == DagsInit /\ [][DagsNext]_dagsVars /\ DagsFairness

-----------------------------------------------------------------------------
(* The owner "a" proposes; "b" votes on a first event of their own and     *)
(* then, after a restart without their chain, signs a second event number  *)
(* two and a third on top of it; their vote on the other branch does not   *)
(* name its proposal.                                                      *)
Ev(h, a, n, p, d, k) ==
    [hash |-> h, author |-> a, seq |-> n, prev |-> p, deps |-> d, kind |-> k,
     proposal |-> IF k = "Vote" THEN 2 ELSE Zero]

MCEvent == {
    Ev(4, "a", 1, Zero, {}, "CreateServer"),
    Ev(2, "a", 2, 4, {}, "Other"),
    Ev(5, "a", 3, 2, {}, "Other"),
    Ev(1, "b", 1, Zero, {4, 2}, "Vote"),
    Ev(6, "b", 2, 1, {}, "Other"),
    Ev(3, "b", 2, 1, {2}, "Other"),
    Ev(7, "b", 3, 3, {5}, "Other"),
    Ev(8, "b", 3, 6, {}, "Vote") }

(* Two servers of the same owner; q is a member of the first.              *)
Said(s, a, last) ==
    {[server |-> s, author |-> a, seq |-> n, create |-> a = "p" /\ n = 1] : n \in 1 .. last}
MCReplayEvent == Said("s", "p", 3) \cup Said("t", "p", 2) \cup Said("s", "q", 2)
MCSize == [e \in MCReplayEvent |-> IF e.seq = 2 THEN 3 ELSE 1]

Row(a, n, h, w) == [author |-> a, seq |-> n, hash |-> h, size |-> w]
MCStoreEvent ==
    {Row("p", 1, 1, 1), Row("p", 2, 5, 1), Row("p", 3, 2, 3), Row("q", 1, 3, 1), Row("q", 2, 4, 2)}
=============================================================================
