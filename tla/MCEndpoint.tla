----------------------------- MODULE MCEndpoint -----------------------------
(***************************************************************************)
(* For TLC: what one endpoint keeps beside the events, which is who        *)
(* governs a server, the client's list of servers, its voice connections,  *)
(* and the search index with the task that feeds it.  They share no state, *)
(* so a behaviour is one of a single component, chosen at the start, while *)
(* the others stay as they were.                                           *)
(***************************************************************************)
EXTENDS Governance, ClientServers, Voice, MCSearch

VARIABLE component

endpointVars == <<component, vars, clientVars, voiceVars, indexerVars>>

EndpointInit ==
    /\ component \in {"governance", "client", "voice", "indexer", "index"}
    /\ Init /\ ClientInit /\ VoiceInit /\ IndexerInit
    /\ component # "indexer" => shown = {}

EndpointNext ==
    /\ \/ component = "governance" /\ Next
       \/ component = "client" /\ ClientNext
       \/ component = "voice" /\ VoiceNext
       \/ component = "indexer" /\ IndexerNext
       \/ component = "index" /\ SearchNext /\ UNCHANGED followerVars
    /\ component # "governance" => UNCHANGED vars
    /\ component # "client" => UNCHANGED clientVars
    /\ component # "voice" => UNCHANGED voiceVars
    /\ component \notin {"indexer", "index"} => UNCHANGED indexerVars
    /\ UNCHANGED component

EndpointSpec == EndpointInit /\ [][EndpointNext]_endpointVars
=============================================================================
