------------------------------- MODULE MCTools -------------------------------
(***************************************************************************)
(* Three things the threads of the agent's tools share: the slot of the    *)
(* confirmation gate, the subscriptions of the robot client, the command   *)
(* of the simulated dog.  A run is about one of them, the others rest.     *)
(***************************************************************************)
EXTENDS MCDangerousGate, Subscriptions, SimDog

CONSTANTS agent, worker

VARIABLE shared

allVars == <<vars, subsVars, simVars, shared>>

MCInit ==
    /\ Init /\ SubsInit /\ SimInit
    /\ shared \in {"gate", "subscriptions", "dog"}

MCNext ==
    /\ UNCHANGED shared
    /\ \/ shared = "gate" /\ Next /\ UNCHANGED <<subsVars, simVars>>
       \/ shared = "subscriptions" /\ SubsNext /\ UNCHANGED <<vars, simVars>>
       \/ shared = "dog" /\ SimNext /\ UNCHANGED <<vars, subsVars>>

MCSpec == MCInit /\ [][MCNext]_allVars
=============================================================================
