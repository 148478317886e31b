------------------------------ MODULE CloudView ------------------------------
(***************************************************************************)
(* The point cloud the laptop bridge publishes: what _on_lidar accumulates *)
(* of the robot's partial maps, and what _stable_view shows of it.         *)
(*                                                                         *)
(* One dimension stands for three.  A voxel is its integer key, at key *   *)
(* the resolution; a cell is Ratio voxels wide; lengths are in half voxels *)
(* so that the centre of a cell is a whole number.  Intensities, which     *)
(* move no point, are left out.                                            *)
(***************************************************************************)
EXTENDS Integers, FiniteSets, FiniteSetsExt

CONSTANTS
    Voxel,          \* the keys within the lidar's reach
    Place,          \* where the robot may be, in half voxels
    Ratio,          \* cloud_res / resolution
    Radius,         \* cloud_radius, in half voxels
    MaxPoints,      \* max_points
    PublishPoints,  \* publish_points
    MaxSweep        \* bound on the voxels of one message

ASSUME CloudAssumption ==
    /\ Voxel \subseteq Int /\ Place \subseteq Int
    /\ Ratio \in Nat \ {0} /\ Radius \in Nat
    /\ MaxPoints \in Nat \ {0} /\ PublishPoints \in Nat \ {0} /\ MaxSweep \in Nat

VARIABLES
    cloud,   \* the keys of _cloud
    pose,    \* _pose
    shown,   \* the cells of the last message on /point_cloud2
    from,    \* the pose it was made for
    capped   \* one of the two caps dropped something from it

cloudViewVars == <<cloud, pose, shown, from, capped>>

CloudInit ==
    /\ cloud = {} /\ shown = {} /\ capped = FALSE
    /\ pose \in Place /\ from = pose

Away(x, p) == IF x > p THEN x - p ELSE p - x

AtKeys(keys) == [k \in keys |-> 2 * k]
Cell(k) == k \div Ratio
Centres(cells) == [c \in cells |-> (2 * c + 1) * Ratio]

(* _nearest: which n of the points to keep, none of them farther    *)
(* from p than one that is left out.  at gives the place of each point.    *)
Nearest(at, p, n) ==
    IF Cardinality(DOMAIN at) <= n THEN {DOMAIN at}
    ELSE {near \in kSubset(n, DOMAIN at) :
             \A x \in near, y \in DOMAIN at \ near : Away(at[x], p) <= Away(at[y], p)}

(* Mutant: cells are thinned out by their rank, as a plain stride would. *)
CellsByRank(keys, p) ==
    LET cells == {k \div Ratio : k \in keys}
    IN  {c \in cells : /\ Cardinality({d \in cells : d < c}) % 2 = 0
                       /\ Away((2 * c + 1) * Ratio, p) <= Radius}

(* The crop is on the centre of a cell, not on the point. *)
CellsInView(keys, p) ==
    LET cells == {Cell(k) : k \in keys}
    IN  {c \in cells : Away(Centres(cells)[c], p) <= Radius}

(* A voxel map arrives and passes the rate gate. *)
OnLidar ==
    \E k \in 1..MaxSweep : \E sweep \in kSubset(k, Voxel) :
    \E kept \in Nearest(AtKeys(cloud \cup sweep), pose, MaxPoints) :
    \E view \in Nearest(Centres(CellsInView(kept, pose)), pose, PublishPoints) :
        /\ cloud' = kept
        /\ shown' = view
        /\ capped' = (kept # cloud \cup sweep \/ view # CellsInView(kept, pose))
        /\ from' = pose
        /\ UNCHANGED pose

(* /utlidar/robot_pose passes its own rate gate. *)
OnOdom ==
    /\ pose' \in Place \ {pose}
    /\ UNCHANGED <<cloud, shown, from, capped>>

CloudNext == OnLidar \/ OnOdom

CloudTypeOK ==
    /\ cloud \subseteq Voxel /\ Cardinality(cloud) <= MaxPoints
    /\ pose \in Place /\ from \in Place
    /\ shown \subseteq {Cell(k) : k \in Voxel} /\ Cardinality(shown) <= PublishPoints
    /\ capped \in BOOLEAN

(* "A radius crop can only ever ADD points while the robot is still, so     *)
(* what is already drawn stays drawn" (_stable_view), for any two messages *)
(* in a row made for the same pose unless a cap dropped points from the    *)
(* second, also when the first was capped, or the robot has been elsewhere *)
(* since the map was trimmed.                                              *)
StableView ==
    [][shown' # shown /\ from' = from /\ ~capped' => shown \subseteq shown']_cloudViewVars
=============================================================================
