------------------------------ MODULE LidarMap ------------------------------
(***************************************************************************)
(* The lidar nodes (lidar_processor_cpp, and the same algorithms in        *)
(* lidar_processor): lidar_to_pointcloud keeps one map of every point it   *)
(* has met, writes it to a file and publishes it whole; the aggregator     *)
(* filters each map it receives and shows the last few of them together.   *)
(*                                                                         *)
(* A point is one rounded coordinate.  Both nodes spin one thread, so a    *)
(* callback is a step; the topic between them is best-effort and keeps the *)
(* last few messages.                                                      *)
(***************************************************************************)
EXTENDS Integers, FiniteSets, FiniteSetsExt, Sequences, SequencesExt

CONSTANTS
    Spot,       \* the points the lidar may report
    MapPoints,  \* max_points
    Leaf,       \* voxel_size
    Near, Far,  \* min_range and max_range
    Enough,     \* points above which outliers are removed (100)
    MaxClouds,  \* publish_rate * 10
    Depth,      \* depth of the aggregator's subscription
    MaxBatch    \* bound on the points of one message

ASSUME LidarAssumption ==
    /\ Spot \subseteq Int /\ IsFiniteSet(Spot)
    /\ MapPoints \in Nat \ {0} /\ Leaf \in Nat \ {0} /\ MaxClouds \in Nat \ {0}
    /\ Depth \in Nat \ {0}
    /\ Near \in Nat /\ Far \in Nat /\ Enough \in Nat /\ MaxBatch \in Nat

VARIABLES
    points,   \* points_
    changed,  \* points_changed_
    file,     \* the .ply file: its voxels, and whether it is whole
    met,      \* every point ever reported
    topic,    \* /pointcloud/aggregated: the messages not received yet
    clouds,   \* aggregated_clouds_
    filtered, \* the last message on /pointcloud/filtered
    ago       \* clouds the aggregator has stored since one with the point

mapVars == <<points, changed, file, met>>
viewVars == <<clouds, filtered, ago>>
lidarVars == <<mapVars, topic, viewVars>>

LidarInit ==
    /\ points = {} /\ changed = FALSE
    /\ file = [whole |-> FALSE, cells |-> {}]
    /\ met = {}
    /\ topic = << >>
    /\ clouds = << >> /\ filtered = {}
    /\ ago = [x \in Spot |-> MaxClouds]

Distance(x) == x * x
Voxels(cloud) == {x \div Leaf : x \in cloud}

(* Mutant: the points met first stay. *)
TrimmedToOldest(old, batch) ==
    LET room == MapPoints - Cardinality(old)
    IN  {old \cup more : more \in kSubset(IF Cardinality(batch \ old) > room THEN room
                                          ELSE Cardinality(batch \ old), batch \ old)}

(* addPoints: all the points when they fit, else those nearest the origin. *)
Trimmed(old, batch) ==
    LET all == old \cup batch
    IN  IF Cardinality(all) <= MapPoints THEN {all}
        ELSE {kept \in kSubset(MapPoints, all) :
                 \A x \in kept, y \in all \ kept : Distance(x) <= Distance(y)}

(* A message goes onto the topic, in the place of the oldest when there are *)
(* Depth already, or is lost.                                              *)
Sent(cloud) ==
    {topic, Append(IF Len(topic) < Depth THEN topic ELSE Tail(topic), cloud)}

(* lidarCallback.  A message without a finite point adds nothing, but marks *)
(* the map as changed all the same.                                         *)
LidarCallback ==
    \E n \in 0..MaxBatch : \E batch \in kSubset(n, Spot) :
    \E kept \in Trimmed(points, batch) :
        /\ points' = kept
        /\ changed' = TRUE
        /\ met' = met \cup batch
        /\ topic' \in IF kept = {} THEN {topic} ELSE Sent(kept)
        /\ UNCHANGED <<file, viewVars>>

(* Mutant: the map counts as saved before it is written. *)
SaveMarksFirst ==
    /\ changed /\ points # {}
    /\ changed' = FALSE
    /\ file' \in {[whole |-> TRUE, cells |-> Voxels(points)], [file EXCEPT !.whole = FALSE]}
    /\ UNCHANGED <<points, met, topic, viewVars>>

(* saveMapCallback: one centroid for each voxel that holds a point.  A write *)
(* that fails may leave a broken file, and the map remains to be saved.     *)
SaveMapCallback ==
    /\ changed /\ points # {}
    /\ \/ /\ file' = [whole |-> TRUE, cells |-> Voxels(points)]
          /\ changed' = FALSE
       \/ /\ file' \in {file, [file EXCEPT !.whole = FALSE]}
          /\ UNCHANGED changed
    /\ UNCHANGED <<points, met, topic, viewVars>>

(* applyFilters: the range, and above Enough points the outliers. *)
Filtered(cloud) ==
    LET inRange == {x \in cloud : Near * Near <= Distance(x) /\ Distance(x) <= Far * Far}
    IN  IF Cardinality(inRange) <= Enough THEN {inRange} ELSE SUBSET inRange

(* Mutant: the newest cloud is erased in the place of the oldest. *)
WindowOfTheOldest(window, cloud) ==
    IF Len(window) < MaxClouds THEN Append(window, cloud) ELSE window

(* Keep only recent data. *)
Window(window, cloud) ==
    LET longer == Append(window, cloud)
    IN  IF Len(longer) <= MaxClouds THEN longer
        ELSE SubSeq(longer, Len(longer) - MaxClouds + 1, Len(longer))

(* pointcloudCallback.  A cloud that is empty once filtered is not stored. *)
PointcloudCallback ==
    /\ topic # << >>
    /\ topic' = Tail(topic)
    /\ \E cloud \in Filtered(Head(topic)) :
          IF cloud = {} THEN UNCHANGED <<clouds, ago>>
          ELSE /\ clouds' = Window(clouds, cloud)
               /\ ago' = [x \in Spot |-> IF x \in cloud THEN 0
                                         ELSE IF ago[x] < MaxClouds THEN ago[x] + 1
                                         ELSE MaxClouds]
    /\ UNCHANGED <<mapVars, filtered>>

(* publishCallback. *)
PublishCallback ==
    /\ clouds # << >>
    /\ filtered' = UNION ToSet(clouds)
    /\ UNCHANGED <<mapVars, topic, clouds, ago>>

LidarNext ==
    LidarCallback \/ SaveMapCallback \/ PointcloudCallback \/ PublishCallback

(* The map is what a reload of the .ply file relies on: whenever nothing is *)
(* marked as unsaved, the file is whole and holds every voxel of the map,   *)
(* also after writes that failed and messages between two saves.            *)
SavedUnlessChanged ==
    points # {} /\ ~changed => file.whole /\ file.cells = Voxels(points)

(* "keep closest points" (addPoints): of all the points ever reported, the  *)
(* map lacks one only if it is full of points at least as near, whatever    *)
(* the order in which they came and were dropped.                           *)
KeepsTheNearest ==
    \A y \in met \ points : /\ Cardinality(points) = MapPoints
                            /\ \A x \in points : Distance(x) <= Distance(y)

(* "Keep only recent data" (pointcloudCallback): what the aggregator shows  *)
(* is every point in range of the last MaxClouds clouds it stored and no   *)
(* other, whatever the map dropped and the topic lost.  Recent is counted  *)
(* in clouds, not in the seconds that the comment goes on to name.         *)
ViewIsRecent ==
    [][filtered' # filtered => filtered' = {x \in Spot : ago[x] < MaxClouds}]_lidarVars

=============================================================================
