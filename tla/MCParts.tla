------------------------------- MODULE MCParts -------------------------------
(***************************************************************************)
(* Parts of the system that share no state, a run being about one of them: *)
(* the laptop bridge's commands, its cloud and its bytes, the lidar nodes, *)
(* the video producer, and of the robot client the greeter's latch and the *)
(* way a search looks and faces.                                           *)
(***************************************************************************)
EXTENDS ApBridge, CloudView, Cdr, LidarMap, VideoProducer, GreeterLatch, Facing

VARIABLE part

allVars == <<apVars, cloudViewVars, cdrVars, lidarVars, videoVars, greeterVars,
             facingVars, part>>

(* A part that the run is not about rests in one of its initial states. *)
CloudRests ==
    /\ cloud = {} /\ shown = {} /\ capped = FALSE
    /\ pose = 0 /\ from = 0
CdrRests ==
    /\ message = [which |-> "twist", a |-> 0, b |-> 0, n |-> 0, side |-> "writer"]
    /\ todo = << >> /\ cursor = 0 /\ places = << >> /\ seen = 0 /\ last = << >>
FacingRests ==
    /\ prompt = TRUE /\ clear = TRUE /\ view = 0 /\ ghost = FALSE
    /\ pipe = << >> /\ cache = Frame(0, TRUE)
    /\ news = FALSE /\ counted = FALSE /\ used = FALSE
    /\ step = "confirm" /\ aim = "sweep" /\ asked = 0 /\ turned = 0
    /\ swept = 0 /\ streak = 0 /\ fixes = 0 /\ verdict = "searching"

MCInit ==
    /\ ApInit /\ LidarInit /\ VideoInit /\ GreeterInit
    /\ \/ /\ part \in {"commands", "lidar", "video", "greeter"}
          /\ CloudRests /\ CdrRests /\ FacingRests
       \/ part = "cloud" /\ CloudInit /\ CdrRests /\ FacingRests
       \/ part = "bytes" /\ CdrInit /\ CloudRests /\ FacingRests
       \/ part = "looking" /\ FacingInit /\ CloudRests /\ CdrRests

Rest(p) ==
    /\ part' = part
    /\ p # "commands" => UNCHANGED apVars
    /\ p # "cloud" => UNCHANGED cloudViewVars
    /\ p # "bytes" => UNCHANGED cdrVars
    /\ p # "lidar" => UNCHANGED lidarVars
    /\ p # "video" => UNCHANGED videoVars
    /\ p # "greeter" => UNCHANGED greeterVars
    /\ p # "looking" => UNCHANGED facingVars

MCNext ==
    \/ part = "commands" /\ ApNext /\ Rest("commands")
    \/ part = "cloud" /\ CloudNext /\ Rest("cloud")
    \/ part = "bytes" /\ CdrNext /\ Rest("bytes")
    \/ part = "lidar" /\ LidarNext /\ Rest("lidar")
    \/ part = "video" /\ VideoNext /\ Rest("video")
    \/ part = "greeter" /\ GreeterNext /\ Rest("greeter")
    \/ part = "looking" /\ FacingNext /\ Rest("looking")

MCSpec == MCInit /\ [][MCNext]_allVars

(* The voxels on both sides of the origin, and where the robot stands. *)
MCVoxel == -3..3
MCPlace == {-3, 0, 2}
(* Points at the same distance, and one too near for the aggregator. *)
MCSpot == {-2, 0, 1, 2}
=============================================================================
