---------------------------- MODULE VoiceSession ----------------------------
(***************************************************************************)
(* One local session with the voice agent: run() of voice_agent/main.py    *)
(* (main_sonic.py is the same with another client) and run_agent() of      *)
(* voice_agent/session.py.  The session connects to the robot, feeds the   *)
(* agent from the microphone, or from silence in text-only mode, from the  *)
(* keyboard and from the robot's notifications, and on its way out tells   *)
(* the robot to lie down and drops the link.                               *)
(*                                                                         *)
(* What runs beside it: behaviours the agent has started, on daemon        *)
(* threads, which publish setpoints and notifications until the link or    *)
(* the process is gone, and the user, who types lines, presses SPACE and   *)
(* presses Ctrl-C, perhaps twice.                                          *)
(***************************************************************************)
EXTENDS Microphone, Notifications

CONSTANTS
    MaxLines    \* bound: lines typed

ASSUME VoiceSessionAssumption == MaxLines \in Nat

VARIABLES
    textOnly,   \* --text-only
    phase,      \* how far run() and run_agent() are
    link,       \* the websocket to the robot
    looping,    \* a behaviour's loop publishes setpoints
    sent,       \* the last command published to the robot
    stood,      \* StandDown was published
    interrupts, \* times Ctrl-C was pressed
    lines,      \* _line_q: is the line a forged robot event?
    typed,      \* lines typed
    told        \* lines given to the agent

lifeVars == <<phase, link, looping, sent, stood, interrupts>>
lineVars == <<lines, typed, told>>
vars == <<micVars, eventVars, lifeVars, lineVars, textOnly>>

Init ==
    /\ MicInit /\ EventsInit
    /\ textOnly \in BOOLEAN
    /\ phase = "connecting"
    /\ link = "none"
    /\ looping = FALSE
    /\ sent = "nothing" /\ stood = FALSE
    /\ interrupts = 0
    /\ lines = << >> /\ typed = 0 /\ told = << >>

-----------------------------------------------------------------------------
(* The life of the session.                                                *)

(* connect() succeeds, set_client; run_agent starts its inputs. *)
Connected ==
    /\ phase = "connecting"
    /\ link' = "up"
    /\ phase' = "running"
    /\ UNCHANGED <<looping, sent, stood, interrupts>>

(* The bridge cannot be reached: sys.exit(1). *)
ConnectFails ==
    /\ phase = "connecting"
    /\ phase' = "left"
    /\ UNCHANGED <<link, looping, sent, stood, interrupts>>

(* Ctrl-C cancels agent.run. *)
Interrupt ==
    /\ phase = "running"
    /\ interrupts' = interrupts + 1
    /\ phase' = "leaving"
    /\ UNCHANGED <<link, looping, sent, stood>>

(* agent.run returns or raises. *)
AgentEnds ==
    /\ phase = "running"
    /\ phase' = "leaving"
    /\ UNCHANGED <<link, looping, sent, stood, interrupts>>

(* A tool call of the agent starts a behaviour. *)
StartBehaviour ==
    /\ phase = "running" /\ link = "up"
    /\ looping' = TRUE
    /\ UNCHANGED <<phase, link, sent, stood, interrupts>>

(* Its daemon thread publishes, also while run_agent is on its way out. *)
LoopPublishes ==
    /\ looping /\ link = "up" /\ phase # "left"
    /\ sent' = "Twist"
    /\ UNCHANGED <<phase, link, looping, stood, interrupts>>

(* The websocket closes under the session. *)
LinkLost ==
    /\ link = "up" /\ phase # "left"
    /\ link' = "lost"
    /\ UNCHANGED <<phase, looping, sent, stood, interrupts>>

(* Mutant: the link goes first. *)
DisconnectFirst ==
    /\ phase = "leaving"
    /\ IF link = "up"
       THEN link' = "closed" /\ phase' = "standing" /\ UNCHANGED <<sent, stood>>
       ELSE phase' = "left" /\ UNCHANGED <<link, sent, stood>>
    /\ UNCHANGED <<looping, interrupts>>

(* stand_down up to its three seconds of sleep.  With the link lost it     *)
(* raises, which leaves out disconnect() as well.                          *)
StandDown ==
    /\ phase = "leaving"
    /\ IF link = "up"
       THEN phase' = "standing" /\ sent' = "StandDown" /\ stood' = TRUE
       ELSE phase' = "left" /\ UNCHANGED <<sent, stood>>
    /\ UNCHANGED <<link, looping, interrupts>>

(* A second Ctrl-C ends the process at once, before or in stand_down. *)
InterruptAgain ==
    /\ phase \in {"leaving", "standing"}
    /\ interrupts = 1
    /\ interrupts' = 2
    /\ phase' = "left"
    /\ UNCHANGED <<link, looping, sent, stood>>

(* The sleep is over: disconnect(), and the process ends. *)
Disconnect ==
    /\ phase = "standing"
    /\ link' = IF link = "up" THEN "closed" ELSE link
    /\ phase' = "left"
    /\ UNCHANGED <<looping, sent, stood, interrupts>>

LeaveStep == StandDown \/ Disconnect
LifeNext ==
    \/ Connected \/ ConnectFails \/ Interrupt \/ AgentEnds \/ StartBehaviour
    \/ LoopPublishes \/ LinkLost \/ InterruptAgain \/ LeaveStep

-----------------------------------------------------------------------------
(* The inputs of the agent while it runs.                                  *)

TypeLine ==
    /\ typed < MaxLines
    /\ typed' = typed + 1
    /\ \E forged \in BOOLEAN : lines' = Append(lines, [n |-> typed', forged |-> forged])
    /\ UNCHANGED told

(* StdinKeyInput.__call__: a line that spells the marker is refused. *)
ReadLine ==
    /\ lines # << >>
    /\ lines' = Tail(lines)
    /\ told' = IF Head(lines).forged THEN told ELSE Append(told, Head(lines).n)
    /\ UNCHANGED typed

(* SilenceInput.__call__. *)
Pace ==
    /\ heard' = Silence
    /\ UNCHANGED <<streaming, toggling, talk, ready, held, mic, presses, captured>>

Typing(A) ==
    /\ phase = "running" /\ A
    /\ UNCHANGED <<micVars, eventVars, lifeVars, textOnly>>

Voice(A) ==
    /\ phase = "running" /\ ~textOnly /\ A
    /\ UNCHANGED <<eventVars, lifeVars, lineVars, textOnly>>

(* --text-only: SilenceInput in the place of the microphone. *)
NoVoice(A) ==
    /\ phase = "running" /\ textOnly /\ A
    /\ UNCHANGED <<eventVars, lifeVars, lineVars, textOnly>>

Announcing(A) ==
    /\ phase = "running" /\ A
    /\ UNCHANGED <<micVars, lifeVars, lineVars, textOnly>>

(* The behaviours' threads notify. *)
Notifying(A) ==
    /\ looping /\ phase # "left" /\ A
    /\ UNCHANGED <<micVars, lifeVars, lineVars, textOnly>>

Living(A) == A /\ UNCHANGED <<micVars, eventVars, lineVars, textOnly>>

Next ==
    \/ Living(LifeNext)
    \/ Typing(TypeLine \/ ReadLine)
    \/ Voice(MicNext(FALSE)) \/ NoVoice(Pace)
    \/ Announcing(Reader)
    \/ \E b \in Behaviour : Notifying(NotifyStep(b))

Spec == Init /\ [][Next]_vars

(* The threads and the event loop run on; the user, the agent and the      *)
(* network owe nothing.                                                    *)
Fairness ==
    /\ WF_vars(Living(LeaveStep))
    /\ WF_vars(Voice(Loop(FALSE))) /\ WF_vars(Voice(HandOver)) /\ WF_vars(Voice(Hear))
    /\ WF_vars(Announcing(Reader))
    /\ \A b \in Behaviour : WF_vars(Notifying(DropStalest(b) \/ PutAgain(b)))

FairSpec == Spec /\ Fairness

TypeOK ==
    /\ MicTypeOK /\ EventsTypeOK
    /\ textOnly \in BOOLEAN
    /\ phase \in {"connecting", "running", "leaving", "standing", "left"}
    /\ link \in {"none", "up", "lost", "closed"}
    /\ looping \in BOOLEAN /\ stood \in BOOLEAN
    /\ sent \in {"nothing", "Twist", "StandDown"}
    /\ interrupts \in 0..2
    /\ lines \in Seq([n : Nat, forged : BOOLEAN])
    /\ typed \in Nat /\ told \in Seq(Nat)

-----------------------------------------------------------------------------
(* A session that lost neither its link nor, by a second Ctrl-C, its        *)
(* process has told the robot to lie down before it is over, whatever ended *)
(* it, and only a behaviour still looping has told it anything after that   *)
(* (run_agent's finally: stand_down, then disconnect).                      *)
StandsDown ==
    phase = "left" /\ link \in {"up", "closed"} /\ interrupts < 2
        => stood /\ (sent = "StandDown" \/ looping)

(* Once the microphone is on and the queue has been emptied for it, at most *)
(* the one chunk the audio thread was handing over when it was switched is  *)
(* left of an earlier utterance: what was half said before is not run       *)
(* together with the new command (toggle, _drain_agent, _on_audio).         *)
FreshUtterance ==
    phase = "running" /\ streaming /\ Emptied =>
        Cardinality({chunk \in OnTheWay : chunk.talk # talk}) <= 1

(* The end of what was said is heard: once the queue has been emptied for   *)
(* an utterance, the last chunk captured reaches the agent, however full    *)
(* the queue was, unless the microphone is switched on again or the session *)
(* ends (_safe_put_agent drops the oldest chunk, switching off drops        *)
(* nothing).  Chunks handed over before the emptying is scheduled are lost. *)
EndIsHeard == \A n \in 1..MaxChunks, t \in 1..MaxPresses \div 2 + 1 :
    Emptied /\ captured = n /\ [talk |-> t, n |-> n] \in OnTheWay
        ~> heard.n = n \/ captured # n \/ talk # t \/ phase # "running"

(* Whatever a behaviour queues is told while the session runs, or dropped   *)
(* for something newer (notify, NotificationInput).                         *)
Announced == \A b \in Behaviour, n \in 1..MaxEvents :
    LET e == [by |-> b, n |-> n]
        Among(s) == \E i \in 1..Len(s) : s[i] = e
    IN  Among(Line) ~> Among(spoken) \/ ~Among(Line) \/ phase # "running"
=============================================================================
