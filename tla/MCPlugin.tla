------------------------------- MODULE MCPlugin -------------------------------
(***************************************************************************)
(* The decisions of the plugin's agents, for TLC, in two parts: in "queue" *)
(* a local match, a room and the requests of its match use the runner, in  *)
(* "restart" a second local match is started over the first.               *)
(***************************************************************************)
EXTENDS AgentDecisions

CONSTANT Second   \* the local match of "restart" alone

VARIABLE part

PartsInit == Init /\ part \in {"queue", "restart"}

PartsNext ==
    /\ Next
    /\ UNCHANGED part
    /\ \/ part = "queue" /\ pc'[Second] = pc[Second]
       \/ part = "restart" /\ \A r \in Rooms : pc'[r] = pc[r]

PartsSpec == PartsInit /\ [][PartsNext]_<<vars, part>> /\ Fairness

==============================================================================
