------------------------------- MODULE Facing -------------------------------
(***************************************************************************)
(* How the object search looks before it turns                             *)
(* (voice_agent/go2_ros2_client.py): the sweep, which turns a step, pauses *)
(* and looks (_find_loop, _confirm_target), and the corrections that       *)
(* centre what it found (_face_target), on detections that arrive late.    *)
(*                                                                         *)
(* The target stands still.  view is how far right of the centre of the    *)
(* picture it is, on a circle of Circle units; a turn to the left          *)
(* increases it.  Arrays are delivered in the order of capture, so of      *)
(* their stamps only three comparisons matter: whether the cached one is   *)
(* newer than the last the debounce counted (~counted), newer than the one *)
(* noted before the last turn (news), and captured since the robot stopped *)
(* (still).  Stop requests are the subject of Behaviours.  A turn ends     *)
(* anywhere from where it began to Over past what was asked: a robot that  *)
(* falls short, one that coasts after StopMove, and one whose turn runs to *)
(* its deadline.                                                           *)
(***************************************************************************)
EXTENDS Integers, Sequences

CONSTANTS
    Circle,         \* units of a full turn, FIND_MAX_SWEEP_DEGREES
    Width,          \* half of the camera's field of view
    Step,           \* a step of the sweep
    Over,           \* the most that a turn goes past what was asked
    Deadzone,       \* GREETER_FACE_DEADZONE
    Tolerance,      \* the offset whose bearing is TURN_TOLERANCE_DEGREES
    MaxCorrections, \* FIND_MAX_CORRECTIONS
    Needed,         \* FIND_CONFIRM_FRAMES
    InFlight,       \* bound on the frames between camera and cache
    Missed          \* an array without the target

ASSUME FacingAssumption ==
    /\ Circle \in Nat \ {0} /\ Circle % 2 = 0
    /\ Width \in Nat /\ Step \in Nat \ {0} /\ Over \in Nat
    /\ Deadzone \in Nat /\ Tolerance \in Nat
    /\ MaxCorrections \in Nat /\ Needed \in Nat \ {0}
    /\ InFlight \in Nat \ {0}
    /\ Missed \notin Int

VARIABLES
    prompt,  \* the pauses outlast the detector's period and its inference,
             \* and it publishes no faster than the behaviour polls
    clear,   \* the detector neither misses the target nor sees it elsewhere
    view,    \* where the target is
    ghost,   \* the last frame captured showed a target that is not there
    pipe,    \* frames on their way through the detector and the websocket
    cache,   \* the detections that arrived last
    news,    \* cache is newer than the stamp noted before the last turn
    counted, \* the debounce has counted cache
    used,    \* a correction has acted on cache
    step,      \* where the behaviour's thread is
    aim,     \* what the turn is for: "sweep" or "face"
    asked,   \* what the turn was asked for, positive to the left
    turned,  \* what it has turned, and measured
    swept,   \* the sweep's total
    streak,  \* frames in a row the debounce has seen the target in
    fixes,   \* corrections made
    verdict  \* how the search ended

worldVars == <<prompt, clear, view, ghost>>
eyeVars   == <<pipe, cache, news, counted, used>>
turnVars  == <<aim, asked, turned>>
facingVars == <<worldVars, eyeVars, step, turnVars, swept, streak, fixes, verdict>>

Half == Circle \div 2
OnCircle(n) == ((n + Half) % Circle) - Half
Size(n) == IF n < 0 THEN -n ELSE n
Visible(n) == Size(n) <= Width
Offsets == -Width..Width

Frame(at, still) == [at |-> at, still |-> still]

(* The cache may be of an earlier heading, unless the robot has stood still *)
(* for as long as a detection takes.                                       *)
FacingInit ==
    /\ prompt \in BOOLEAN /\ clear \in BOOLEAN
    /\ view \in -Half..(Half - 1)
    /\ ghost = FALSE
    /\ pipe = << >>
    /\ \E at \in Offsets \cup {Missed} :
          /\ prompt => at = IF Visible(view) THEN view ELSE Missed
          /\ cache = Frame(at, prompt)
    /\ news = FALSE /\ counted = FALSE /\ used = FALSE
    /\ step = "confirm"
    /\ aim = "sweep" /\ asked = 0 /\ turned = 0
    /\ swept = 0 /\ streak = 0 /\ fixes = 0
    /\ verdict = "searching"

-----------------------------------------------------------------------------
(* The camera, coco_detector and the websocket.                            *)

Truth == IF Visible(view) THEN view ELSE Missed

(* A detector that errs may miss the target, or see it where it is not,    *)
(* though not in two frames in a row.                                      *)
Capture ==
    /\ Len(pipe) < InFlight
    /\ \E at \in {Truth} \cup {a \in {Missed, 0} : ~clear} :
          /\ ghost' = (at # Missed /\ at # Truth)
          /\ ghost => ~ghost'
          /\ pipe' = Append(pipe, Frame(at, step # "turn"))
    /\ UNCHANGED <<prompt, clear, view, cache, news, counted, used, step, turnVars,
                   swept, streak, fixes, verdict>>

(* _on_detections.  The debounce is polled ten times as often as the        *)
(* detector publishes.                                                     *)
OnDetections ==
    /\ pipe # << >>
    /\ prompt /\ step = "confirm" => counted
    /\ cache' = Head(pipe)
    /\ pipe' = Tail(pipe)
    /\ news' = TRUE /\ counted' = FALSE /\ used' = FALSE
    /\ UNCHANGED <<worldVars, step, turnVars, swept, streak, fixes, verdict>>

(* _fresh_detections and _best_detection: an array older than its maximum  *)
(* age shows nothing.                                                      *)
Seen == {cache.at} \cup {a \in {Missed} : ~prompt}

-----------------------------------------------------------------------------
(* turn_degrees, as both callers see it.                                   *)

StartTurn(for, by) ==
    /\ step' = "turn" /\ aim' = for /\ asked' = by /\ turned' = 0
    /\ pipe' = [i \in DOMAIN pipe |-> [pipe[i] EXCEPT !.still = FALSE]]
    /\ cache' = [cache EXCEPT !.still = FALSE]
    /\ UNCHANGED worldVars

(* The commands, and after them the coast, which _halt_and_settle measures *)
(* too: the robot goes on past what was asked.                             *)
Turn ==
    /\ step = "turn" /\ turned < Size(asked) + Over
    /\ view' = OnCircle(view + (IF asked > 0 THEN 1 ELSE -1))
    /\ turned' = turned + 1
    /\ UNCHANGED <<prompt, clear, ghost, eyeVars, step, aim, asked, swept, streak, fixes,
                   verdict>>

(* Mutant: the sweep counts what it asked for. *)
SweepTurnedAsAsked ==
    /\ step = "turn" /\ aim = "sweep"
    /\ IF turned = 0
       THEN step' = "done" /\ verdict' = "error" /\ UNCHANGED swept
       ELSE step' = "settle" /\ swept' = swept + Step /\ UNCHANGED verdict
    /\ UNCHANGED <<worldVars, eyeVars, turnVars, streak, fixes>>

(* A step of the sweep that measured nothing ends the search; else the     *)
(* sweep counts what was measured, and pauses.                             *)
SweepTurned ==
    /\ step = "turn" /\ aim = "sweep"
    /\ IF turned = 0
       THEN step' = "done" /\ verdict' = "error" /\ UNCHANGED swept
       ELSE step' = "settle" /\ swept' = swept + turned /\ UNCHANGED verdict
    /\ UNCHANGED <<worldVars, eyeVars, turnVars, streak, fixes>>

(* Mutant: the loop looks without a pause. *)
CorrectionUnsettled ==
    /\ step = "turn" /\ aim = "face"
    /\ step' = "wait"
    /\ UNCHANGED <<worldVars, eyeVars, turnVars, swept, streak, fixes, verdict>>

CorrectionTurned ==
    /\ step = "turn" /\ aim = "face"
    /\ step' = "settle"
    /\ UNCHANGED <<worldVars, eyeVars, turnVars, swept, streak, fixes, verdict>>

(* The robot stands and the pause goes by, after which a search makes a    *)
(* new debounce.                                                           *)
Settle ==
    /\ step = "settle"
    /\ prompt => cache.still
    /\ step' = IF aim = "sweep" THEN "confirm" ELSE "wait"
    /\ streak' = 0 /\ counted' = FALSE
    /\ UNCHANGED <<worldVars, pipe, cache, news, used, turnVars, swept, fixes, verdict>>

-----------------------------------------------------------------------------
(* _confirm_target and the sweep around it.                                *)

(* Mutant: an array that was counted is counted again. *)
DebounceRepeats(at) == step = "confirm" /\ at \in Seen /\ counted' = TRUE

(* _DetectionDebounce.tick finds an array it has not counted. *)
DebounceTicks(at) == step = "confirm" /\ ~counted /\ at \in Seen /\ counted' = TRUE

LooksOn ==
    /\ \E at \in Offsets : DebounceTicks(at)
    /\ streak + 1 < Needed /\ streak' = streak + 1
    /\ UNCHANGED <<worldVars, pipe, cache, news, used, step, turnVars, swept, fixes, verdict>>

Confirmed ==
    /\ \E at \in Offsets : DebounceTicks(at)
    /\ streak + 1 = Needed /\ streak' = Needed
    /\ step' = "face"
    /\ UNCHANGED <<worldVars, pipe, cache, news, used, turnVars, swept, fixes, verdict>>

(* An array without the target, or no further array in time. *)
NotHere ==
    \/ DebounceTicks(Missed)
    \/ step = "confirm" /\ counted /\ ~prompt /\ UNCHANGED counted

NextHeading ==
    /\ NotHere /\ swept < Circle
    /\ StartTurn("sweep", Step)
    /\ streak' = 0
    /\ UNCHANGED <<news, used, swept, fixes, verdict>>

NotFound ==
    /\ NotHere /\ swept >= Circle
    /\ step' = "done" /\ verdict' = "not_found" /\ streak' = 0
    /\ UNCHANGED <<worldVars, pipe, cache, news, used, turnVars, swept, fixes>>

-----------------------------------------------------------------------------
(* _face_target.                                                           *)

Faces(at) == Size(at) <= Deadzone \/ Size(at) <= Tolerance

(* The loop has the target in the cached frame.  How far it turns for it   *)
(* depends on the estimate of the field of view and on the gain, and may   *)
(* be short of the target or beyond it.  The stamp noted before the turn   *)
(* is that of the cached frame.                                            *)
Centred(at) ==
    /\ fixes < MaxCorrections /\ Faces(at)
    /\ step' = "done" /\ verdict' = "facing"
    /\ UNCHANGED <<worldVars, eyeVars, turnVars, swept, streak, fixes>>

Correct(at) ==
    /\ fixes < MaxCorrections /\ ~Faces(at)
    /\ \E by \in 1..Width : StartTurn("face", IF at > 0 THEN -by ELSE by)
    /\ fixes' = fixes + 1
    /\ news' = FALSE /\ used' = TRUE
    /\ UNCHANGED <<counted, swept, streak, verdict>>

GiveUp ==
    /\ step' = "verdict"
    /\ UNCHANGED <<worldVars, eyeVars, turnVars, swept, streak, fixes, verdict>>

(* The first look, and the look for a lost target, which any cached array  *)
(* satisfies, however old it is.                                           *)
Look ==
    /\ step = "face"
    /\ \/ \E at \in Seen \ {Missed} : Centred(at) \/ Correct(at)
       \/ (Missed \in Seen \/ fixes = MaxCorrections) /\ GiveUp

(* _wait_for_frame_captured_after the stamp noted before the turn. *)
WaitSees ==
    /\ step = "wait" /\ news
    /\ \/ \E at \in Seen \ {Missed} : Centred(at) \/ Correct(at)
       \/ fixes = MaxCorrections /\ GiveUp

(* A new frame without the target, or none in time. *)
WaitMisses ==
    /\ step = "wait"
    /\ IF news THEN Missed \in Seen ELSE ~prompt
    /\ step' = "face"
    /\ UNCHANGED <<worldVars, eyeVars, turnVars, swept, streak, fixes, verdict>>

(* The verdict is read from the cache, the dead zone alone deciding. *)
Verdict ==
    /\ step = "verdict"
    /\ \E at \in Seen :
          verdict' = IF at # Missed /\ Size(at) <= Deadzone THEN "facing" ELSE "found"
    /\ step' = "done"
    /\ UNCHANGED <<worldVars, eyeVars, turnVars, swept, streak, fixes>>

FacingNext ==
    \/ Capture \/ OnDetections
    \/ Turn \/ SweepTurned \/ CorrectionTurned \/ Settle
    \/ LooksOn \/ Confirmed \/ NextHeading \/ NotFound
    \/ Look \/ WaitSees \/ WaitMisses \/ Verdict

FacingSpec == FacingInit /\ [][FacingNext]_facingVars

-----------------------------------------------------------------------------
FacingTypeOK ==
    /\ view \in -Half..(Half - 1)
    /\ Len(pipe) <= InFlight
    /\ step = "turn" => asked # 0 /\ turned <= Size(asked) + Over
    /\ swept < Circle + Step + Over
    /\ streak \in 0..Needed /\ fixes \in 0..MaxCorrections
    /\ verdict \in {"searching", "error", "not_found", "facing", "found"}
    /\ step = "done" <=> verdict # "searching"

(* FIND_STEP_FOV_FRACTION leaves half of the view for the overshoot: a step *)
(* carries the robot no further than the view is wide.                     *)
ViewsOverlap == Step + Over <= 2 * Width

(* "so successive views always overlap" (_find_loop): where they do, the    *)
(* pauses suffice and the detector does not err, a search cannot end       *)
(* without its target, however short of each step or past it the robot     *)
(* turns.                                                                  *)
SweepSeesAll == prompt /\ clear /\ ViewsOverlap => verdict # "not_found"

(* "one frame of a misclassified box shouldn't end the search and send the *)
(* robot pointing at nothing" (_confirm_target), where the pauses suffice. *)
PointsAtSomething == prompt /\ step = "face" /\ fixes = 0 => Visible(view)

(* "Found the ... - I'm facing it now" (_find_loop): where the pauses       *)
(* suffice and the detector does not err, a search that says so has the    *)
(* target where the loop asks for it to be, not where a frame from before  *)
(* the robot stopped showed it, however far the last turn overshot.        *)
SaysItFaces == prompt /\ clear /\ verdict = "facing" => Faces(view)

(* "the next measurement is only accepted from a frame captured after this *)
(* turn finished" (_face_target): no frame is corrected for twice.         *)
OneCorrectionPerFrame == [][fixes' > fixes => ~used]_facingVars
=============================================================================
