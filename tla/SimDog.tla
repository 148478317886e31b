-------------------------------- MODULE SimDog --------------------------------
(***************************************************************************)
(* The simulated dog: a physics thread that plays gestures and walks, and  *)
(* the threads of the agent's tools, which leave it a gesture or a twist   *)
(* under a lock and wait for an Event, or for the time of the walk.        *)
(*                                                                         *)
(* A pose is told by its name; interpolation, gait, obstacles and the      *)
(* righting of a dog that fell are left out.                               *)
(***************************************************************************)
EXTENDS Integers

CONSTANTS
    Tool,        \* the threads that carry out tools
    MaxSteps     \* physics steps of a gesture

ASSUME SimAssumption == MaxSteps \in Nat \ {0}

Gesture == {"stand_up", "sit", "stand_down"}
NoGesture == "none"

(* Motion.ends_as, of gestures with these three endings. *)
EndsAs(g) == CASE g = "stand_up" -> "standing"
               [] g = "sit" -> "sitting"
               [] g = "stand_down" -> "lying"

VARIABLES
    queued,    \* _cmd.motion
    twist,     \* whether _cmd.twist is not zero
    inTime,    \* whether twist_until lies ahead
    playing,   \* _motion
    steps,     \* how far it has been played
    label,     \* _pose_label
    legs,      \* the pose _target holds, "between" while it is interpolated
    walking,   \* _moving
    driven,    \* whether the last step moved the base
    done,      \* _motion_done
    phase,     \* of _tick: "take", "play", "drive"
    loop,      \* the physics thread: "running", "fault", "closed"
    doing,     \* what a tool is about
    looked     \* history, for LabelIsPose: "on" when the loop last saw the
               \* twist on, "ended" when a gesture ended since, "crossed" when
               \* it then found the twist off at once

simCmdVars == <<queued, twist, inTime>>
simLoopVars == <<playing, steps, label, legs, walking, driven, phase>>
simVars == <<simCmdVars, simLoopVars, done, loop, doing, looked>>

(* start(): planted in its stance. *)
SimInit ==
    /\ queued = NoGesture /\ twist = FALSE /\ inTime = FALSE
    /\ playing = NoGesture /\ steps = 0
    /\ label = "standing" /\ legs = "standing"
    /\ walking = FALSE /\ driven = FALSE
    /\ done = TRUE /\ phase = "take" /\ loop = "running"
    /\ doing = [t \in Tool |-> "nothing"]
    /\ looked = "off"

-----------------------------------------------------------------------------
(* Tools.                                                                  *)

(* play: a gesture cancels walking.  The Event is cleared after the lock   *)
(* is released.                                                            *)
Play(t, g) ==
    /\ doing[t] = "nothing" /\ loop # "fault"
    /\ queued' = g /\ twist' = FALSE /\ inTime' = FALSE
    /\ doing' = [doing EXCEPT ![t] = "queueing"]
    /\ UNCHANGED <<simLoopVars, done, loop, looked>>

ClearDone(t) ==
    /\ doing[t] = "queueing"
    /\ done' = FALSE
    /\ doing' = [doing EXCEPT ![t] = "waiting"]
    /\ UNCHANGED <<simCmdVars, simLoopVars, loop, looked>>

(* wait_for_motion gives a gesture its duration and 1.5 s: a loop that     *)
(* runs has taken it by the time the wait is over.                         *)
MotionWaited(t) ==
    /\ doing[t] = "waiting"
    /\ done \/ loop # "running" \/ (queued = NoGesture /\ phase = "take")
    /\ doing' = [doing EXCEPT ![t] = "nothing"]
    /\ UNCHANGED <<simCmdVars, simLoopVars, done, loop, looked>>

(* set_twist, of move and turn_degrees. *)
Walk(t) ==
    /\ doing[t] = "nothing" /\ loop # "fault"
    /\ twist' = TRUE /\ inTime' = TRUE
    /\ doing' = [doing EXCEPT ![t] = "walking"]
    /\ UNCHANGED <<queued, simLoopVars, done, loop, looked>>

TwistExpires ==
    /\ inTime
    /\ inTime' = FALSE
    /\ UNCHANGED <<queued, twist, simLoopVars, done, loop, doing, looked>>

(* move returns 0.3 s after the end of the walk, many steps of the loop. *)
WalkReturns(t) ==
    /\ doing[t] = "walking" /\ ~inTime
    /\ loop # "running" \/ ~walking
    /\ doing' = [doing EXCEPT ![t] = "nothing"]
    /\ UNCHANGED <<simCmdVars, simLoopVars, done, loop, looked>>

(* stop: halt(), which may come while another tool is at work. *)
HaltWalk ==
    /\ twist' = FALSE /\ inTime' = FALSE
    /\ UNCHANGED <<queued, simLoopVars, done, loop, doing, looked>>

-----------------------------------------------------------------------------
(* The physics thread: the parts of _tick between which others may run.    *)

Start(g) ==
    /\ playing' = g /\ steps' = 0 /\ done' = FALSE

TakeGesture ==
    /\ loop = "running" /\ phase = "take"
    /\ phase' = "play"
    /\ queued' = NoGesture
    /\ IF queued = NoGesture THEN UNCHANGED <<playing, steps, done>> ELSE Start(queued)
    /\ UNCHANGED <<twist, inTime, label, legs, walking, driven, loop, doing, looked>>

PlayOn ==
    /\ loop = "running" /\ phase = "play"
    /\ phase' = "drive"
    /\ \/ /\ playing = NoGesture
          /\ UNCHANGED <<playing, steps, label, legs, done, looked>>
       \/ /\ playing # NoGesture /\ steps + 1 < MaxSteps
          /\ steps' = steps + 1 /\ legs' = "between"
          /\ UNCHANGED <<playing, label, done, looked>>
       \/ /\ playing # NoGesture /\ steps + 1 = MaxSteps
          /\ playing' = NoGesture /\ steps' = 0
          /\ label' = EndsAs(playing) /\ legs' = EndsAs(playing)
          /\ done' = TRUE
          /\ looked' = IF looked \in {"on", "crossed"} THEN "ended" ELSE "off"
    /\ UNCHANGED <<simCmdVars, walking, driven, loop, doing>>

(* The ways through _active_twist: a walk that is over leaves a dog that   *)
(* stands, ...                                                             *)
WalkIsOver ==
    /\ ~(twist /\ inTime)
    /\ walking' = FALSE /\ driven' = FALSE
    /\ label' = IF walking THEN "standing" ELSE label
    /\ looked' = IF looked = "crossed" \/ (walking /\ looked = "ended")
                  THEN "crossed" ELSE "off"
    /\ UNCHANGED <<playing, steps, done>>

(* ... a gesture goes first, ... *)
GestureGoesFirst ==
    /\ playing # NoGesture
    /\ driven' = FALSE
    /\ UNCHANGED <<playing, steps, label, walking, done>>

(* ... a walk asked of a dog that sits or lies makes it stand up first, ... *)
StandFirst ==
    /\ playing = NoGesture /\ label # "standing"
    /\ Start("stand_up")
    /\ driven' = FALSE
    /\ UNCHANGED <<label, walking>>

(* ... and a dog that stands is driven. *)
DriveBase ==
    /\ playing = NoGesture /\ label = "standing"
    /\ walking' = TRUE /\ driven' = TRUE
    /\ UNCHANGED <<playing, steps, label, done>>

SeesTwist == looked' = IF looked = "crossed" THEN looked ELSE "on"

(* Mutant: the gesture is looked at before the end of the walk. *)
DriveGestureFirst ==
    /\ loop = "running" /\ phase = "drive"
    /\ phase' = "take"
    /\ \/ GestureGoesFirst /\ looked' = IF twist /\ inTime THEN "on" ELSE "off"
       \/ playing = NoGesture /\ WalkIsOver
       \/ twist /\ inTime /\ SeesTwist /\ (StandFirst \/ DriveBase)
    /\ UNCHANGED <<simCmdVars, legs, loop, doing>>

(* _active_twist, and the base with it. *)
Drive ==
    /\ loop = "running" /\ phase = "drive"
    /\ phase' = "take"
    /\ \/ WalkIsOver
       \/ twist /\ inTime /\ SeesTwist /\ (GestureGoesFirst \/ StandFirst \/ DriveBase)
    /\ UNCHANGED <<simCmdVars, legs, loop, doing>>

(* _run records why the loop ended; close() ends it. *)
LoopEnds(how) ==
    /\ loop = "running"
    /\ loop' = how
    /\ UNCHANGED <<simCmdVars, simLoopVars, done, doing, looked>>

SimNext ==
    \/ \E t \in Tool : \/ \E g \in Gesture : Play(t, g)
                       \/ ClearDone(t) \/ MotionWaited(t) \/ Walk(t) \/ WalkReturns(t)
    \/ TwistExpires \/ HaltWalk
    \/ TakeGesture \/ PlayOn \/ Drive
    \/ LoopEnds("fault") \/ LoopEnds("closed")

SimTypeOK ==
    /\ queued \in Gesture \cup {NoGesture} /\ twist \in BOOLEAN /\ inTime \in BOOLEAN
    /\ playing \in Gesture \cup {NoGesture} /\ steps \in 0..(MaxSteps - 1)
    /\ label \in {"standing", "sitting", "lying"}
    /\ legs \in {"standing", "sitting", "lying", "between"}
    /\ walking \in BOOLEAN /\ driven \in BOOLEAN /\ done \in BOOLEAN
    /\ phase \in {"take", "play", "drive"} /\ loop \in {"running", "fault", "closed"}
    /\ doing \in [Tool -> {"nothing", "queueing", "waiting", "walking"}]
    /\ looked \in {"off", "on", "ended", "crossed"}

(* The posture the dog reports, and that decides whether it must stand     *)
(* before it walks, is the pose of its legs whenever no gesture is played, *)
(* and no walk drags the base along while they sit or lie: also after a    *)
(* walk and a gesture asked for together by two tools, a gesture that      *)
(* replaced another, and a stop between two steps.  Only when a walk that  *)
(* a gesture interrupted runs out in the very step in which the gesture    *)
(* ends, the dog believes to stand until its next gesture has ended.       *)
LabelIsPose ==
    looked # "crossed" =>
        /\ playing = NoGesture => label = legs
        /\ driven /\ phase = "take" => playing = NoGesture /\ legs = "standing"

=============================================================================
