------------------------------ MODULE MCSessions ------------------------------
(***************************************************************************)
(* The sessions of the voice agent: a local one, the server of hosted ones *)
(* and the terminal client of a hosted one.  A run is about one of them.   *)
(* The two ends of a hosted session need not be run together: the server   *)
(* is open to any frames a client may send, the client to any frames the   *)
(* server may send.                                                        *)
(***************************************************************************)
EXTENDS VoiceSession, HostedSession, ThinClient

CONSTANTS greeter, search, s1, s2

VARIABLE part

localVars == <<eventVars, lifeVars, lineVars, textOnly>>
allVars == <<vars, hostedVars, thinVars, part>>

MCInit ==
    /\ Init /\ HostedInit /\ ThinInit
    /\ \/ part = "local"
       \/ part \in {"server", "client"} /\ ~textOnly

(* A local session uses one of its inputs, the microphone, the keyboard or *)
(* the notifications, and the terminal client the microphone or the        *)
(* speaker: they share nothing but the session, so their steps commute and *)
(* the bounds lose no order of theirs.  Of two hosted sessions one sends   *)
(* frames: they share the robot client, which no frame touches.            *)
Notified == \E b \in Behaviour : made[b] > 0
OneInput ==
    /\ presses > 0 => typed = 0 /\ ~Notified
    /\ typed > 0 => ~Notified
OneDevice == presses = 0 \/ sentAudio = 0
OneSender == wire[s2] = << >>

Local(A) == part = "local" /\ A /\ UNCHANGED <<hostedVars, thinVars, part>>
Server(A) == part = "server" /\ A /\ UNCHANGED <<vars, thinVars, part>>
Client(A) == part = "client" /\ A /\ UNCHANGED <<localVars, hostedVars, part>>

MCNext == Local(Next /\ OneInput') \/ Server(HostedNext /\ OneSender') \/ Client(ThinNext /\ OneDevice')

(* The fairness of VoiceSession and of HostedSession, each for its part. *)
MCFairness ==
    /\ WF_allVars(Local(Living(LeaveStep)))
    /\ WF_allVars(Local(Voice(Loop(FALSE))))
    /\ WF_allVars(Local(Voice(HandOver))) /\ WF_allVars(Local(Voice(Hear)))
    /\ WF_allVars(Local(Announcing(Reader)))
    /\ \A b \in Behaviour : WF_allVars(Local(Notifying(DropStalest(b) \/ PutAgain(b))))
    /\ \A s \in Session : WF_allVars(Server(Handler(s))) /\ WF_allVars(Server(Read(s)))

MCSpec == MCInit /\ [][MCNext]_allVars /\ MCFairness
=============================================================================
