------------------------------- MODULE MCDriver -------------------------------
(***************************************************************************)
(* The driver, seen twice: the commands that pass through it, with a       *)
(* connection that is either there or not, and how it gets and keeps these *)
(* connections.  The two share no state here: a run is about one of them.  *)
(***************************************************************************)
EXTENDS DriverCommands, Reconnect

VARIABLE part

allVars == <<vars, linkingVars, part>>

(* The other half rests: nothing published, or a driver that is gone. *)
CommandsRest == Init
ReconnectRests ==
    /\ token = "none" /\ flag = FALSE /\ turn = 0
    /\ stage = [r \in Robot |-> "idle"] /\ attempt = [r \in Robot |-> 0]
    /\ chan = [r \in Robot |-> "none"] /\ peer = [r \in Robot |-> 0]
    /\ left = [r \in Robot |-> 0]
    /\ backoff = [r \in Robot |-> 1] /\ asleep = [r \in Robot |-> 0]
    /\ own = [r \in Robot |-> "none"] /\ treated = [r \in Robot |-> "none"]
    /\ blocked = FALSE
    /\ logins = 0 /\ dropped = 0 /\ troubles = 0
    /\ up = "gone"

MCInit ==
    \/ part = "commands" /\ Init /\ ReconnectRests
    \/ part = "links" /\ ReconnectInit /\ CommandsRest

Commanding(A) == part = "commands" /\ A /\ UNCHANGED <<linkingVars, part>>
Linking(A) == part = "links" /\ A /\ UNCHANGED <<vars, part>>

MCNext == Commanding(Next) \/ Linking(ReconnectNext)

(* The fairness of DriverCommands and of Reconnect, each for its own part. *)
MCFairness ==
    /\ \A r \in Robots : WF_allVars(Commanding(Loop(r)))
    /\ WF_allVars(Commanding(Deliver))
    /\ \A r \in Robot : /\ WF_allVars(Linking(Watching(r)))
                        /\ WF_allVars(Linking(Ends(r)))
    /\ WF_allVars(Linking(CloudRelents))

MCSpec == MCInit /\ [][MCNext]_allVars /\ MCFairness
=============================================================================
