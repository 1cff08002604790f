------------------------------ MODULE MCTables ------------------------------
(***************************************************************************)
(* For TLC: the components that keep several tables in step, which are the *)
(* content of a server, the pending buffer, the relay's topics and the     *)
(* clocks.  They share no state, so a behaviour is one of a single         *)
(* component, chosen at the start, while the others stay as they were.     *)
(***************************************************************************)
EXTENDS ServerContent, PendingBuffer, RelayTopics, HybridClock

VARIABLE component

tablesVars == <<component, allVars, bufferVars, relayVars, clockVars>>

TablesInit ==
    /\ component \in {"content", "buffer", "relay", "clock"}
    /\ ContentInit /\ BufferInit /\ RelayInit /\ ClockInit

TablesNext ==
    /\ \/ component = "content" /\ ContentNext
       \/ component = "buffer" /\ BufferNext
       \/ component = "relay" /\ RelayNext
       \/ component = "clock" /\ ClockNext
    /\ component # "content" => UNCHANGED allVars
    /\ component # "buffer" => UNCHANGED bufferVars
    /\ component # "relay" => UNCHANGED relayVars
    /\ component # "clock" => UNCHANGED clockVars
    /\ UNCHANGED component

TablesSpec == TablesInit /\ [][TablesNext]_tablesVars

-----------------------------------------------------------------------------
(* Events that wait for one of two hashes.                                 *)
MCEvent == [author : Author, prev : {0, 1}]

(* A peer whose clock is past every wall clock and the drift.              *)
MCForeign == {[millis |-> 5, counter |-> 1]}
=============================================================================
