--------------------------------- MODULE Cdr ---------------------------------
(***************************************************************************)
(* The CDR bytes that the laptop bridge, the robot client and the ROS      *)
(* graph exchange.  CDR has no field names: a reader finds a field only    *)
(* where its writer put it, and every writer and reader here pads by hand. *)
(*                                                                         *)
(* A layout is a sequence of runs <<align, size, count>>: pad to align,    *)
(* then count items of size bytes.  Positions are counted from the end of  *)
(* the four bytes of header, as the code does.  What a message says is     *)
(* abstracted to the lengths of its strings (a, b) and of its sequences.   *)
(***************************************************************************)
EXTENDS Integers, Sequences, SequencesExt

CONSTANTS MaxText, MaxItems   \* bounds on the lengths

ASSUME CdrAssumption == MaxText \in Nat /\ MaxItems \in Nat

-----------------------------------------------------------------------------
(* Runs.                                                                   *)

Pad(p, align) == p + ((-p) % align)

U8 == << <<1, 1, 1>> >>
U32 == << <<4, 4, 1>> >>
F64 == << <<8, 8, 1>> >>
Array(size, n) == << <<size, size, n>> >>       \* fixed: no length in front
Raw(size, n) == << <<1, size, n>> >>            \* read or written without padding
Text(n) == U32 \o Raw(1, n + 1)                 \* the null is counted
Items(size, n) == U32 \o (IF n = 0 THEN << >> ELSE Array(size, n))
Times(n, layout) == FlattenSeq([i \in 1..n |-> layout])

Stamp == U32 \o U32
Header(a) == Stamp \o Text(a)

-----------------------------------------------------------------------------
(* What go2_ap_bridge.py writes (Bridge...), and the schemas it announces   *)
(* (...Schema), which is how any other subscriber reads it.                *)

BridgeImage(a, b, n) == Header(a) \o Text(b) \o U32 \o Raw(1, n)
ImageSchema(a, b, n) == Header(a) \o Text(b) \o Items(1, n)

BridgeGo2State ==
    U8 \o U32 \o U8 \o U32 \o Array(4, 3) \o U32 \o Array(4, 3) \o Array(4, 4)
       \o Array(2, 4) \o Array(4, 12) \o Array(4, 12)
Go2StateSchema ==
    U8 \o U32 \o U8 \o U32 \o Array(4, 3 + 1 + 3 + 4) \o Array(2, 4) \o Array(4, 24)

Motor == U8 \o Array(4, 7) \o U8 \o U32 \o Array(4, 2)

BridgeMotors == Times(20, Motor)

BridgeLowState ==
    Raw(1, 2) \o U8 \o U8 \o Array(4, 2) \o Array(4, 2) \o Array(2, 1)
    \o Array(4, 4) \o Array(4, 3) \o Array(4, 3) \o Array(4, 3) \o U8
    \o BridgeMotors
    \o U8 \o U8 \o U8 \o U8 \o U32 \o Array(2, 1) \o Raw(1, 2) \o Raw(1, 2) \o Array(2, 15)
    \o Array(2, 4) \o Array(2, 4) \o U32 \o Raw(1, 40) \o U8 \o U32 \o U8 \o U8
    \o U32 \o U32 \o Array(2, 4) \o U32 \o U32
LowStateSchema ==
    LET IMU == Array(4, 13) \o U8
        BmsState == Array(1, 4) \o U32 \o Array(2, 1) \o Array(1, 4) \o Array(2, 15)
    IN  Array(1, 4) \o Array(4, 4) \o Array(2, 1) \o IMU \o Times(20, Motor) \o BmsState
        \o Array(2, 8) \o U32 \o Array(1, 41) \o U32 \o Array(1, 2) \o Array(4, 2)
        \o Array(2, 4) \o Array(4, 2)

BridgeOdometry(a, b) ==
    Header(a) \o Text(b) \o Times(7, F64) \o Array(8, 36) \o Times(6, F64) \o Array(8, 36)
OdomSchema(a, b) == Header(a) \o Text(b) \o Array(8, 7 + 36 + 6 + 36)

BridgeJoints(a, n) ==
    Header(0) \o U32 \o Times(n, Text(a)) \o U32 \o Times(n, F64) \o U32 \o U32
JointSchema(a, n) ==
    Header(0) \o U32 \o Times(n, Text(a)) \o Items(8, n) \o Items(8, 0) \o Items(8, 0)

BridgeTf(a, b) == U32 \o Header(a) \o Text(b) \o Times(7, F64)
TfSchema(a, b) == U32 \o Header(a) \o Text(b) \o Array(8, 3) \o Array(8, 4)

BridgeCloud(a, n) ==
    Header(a) \o U32 \o U32 \o U32
    \o FlattenSeq([i \in 1..4 |-> Text(IF i = 4 THEN 9 ELSE 1) \o U32 \o U8 \o U32])
    \o U8 \o U32 \o U32 \o U32 \o Raw(1, 16 * n) \o U8
CloudSchema(a, n) ==
    LET Field(k) == Text(k) \o U32 \o Array(1, 1) \o U32
    IN  Header(a) \o Array(4, 3) \o Field(1) \o Field(1) \o Field(1) \o Field(9)
        \o U8 \o Array(4, 2) \o Items(1, 16 * n) \o Array(1, 1)

(* What go2_ap_bridge.py reads. *)
BridgeReadsTwist == Times(6, F64)
BridgeReadsReq(a, b) == F64 \o Text(a) \o F64 \o Text(b) \o U8

-----------------------------------------------------------------------------
(* What go2_ros2_client.py writes and reads.                               *)

ClientTwist == Raw(8, 6)

ClientReq(a, b) ==
    Raw(8, 1) \o Text(a) \o << <<8, 8, 1>> >> \o Text(b) \o Raw(1, 1)

ClientReadsJpeg(a, b, n) ==
    U32 \o Raw(4, 1) \o Text(a) \o Text(b) \o U32 \o Raw(1, n)

ClientReadsImage(a, b, n) ==
    U32 \o Raw(4, 1) \o Text(a) \o U32 \o U32 \o Text(b) \o Raw(1, 1) \o U32 \o U32
    \o Raw(1, n)

ClientReadsDetections(a, b, n) ==
    LET Hypothesis == Text(b) \o F64 \o << <<8, 8, 3 + 4 + 36>> >>
    IN  Header(a) \o U32
        \o Times(n, Header(a) \o U32 \o Times(n, Hypothesis) \o Times(5, F64) \o Text(b))

(* Mutant: no padding before the pose. *)
ClientReadsYawUnaligned(a, b) ==
    U32 \o Raw(4, 1) \o Text(a) \o Text(b) \o Raw(8, 3) \o Raw(8, 4)

ClientReadsYaw(a, b) ==
    U32 \o Raw(4, 1) \o Text(a) \o Text(b) \o << <<8, 8, 3>> >> \o Raw(8, 4)

ClientReadsGo2State ==
    Raw(1, 1) \o U32 \o Raw(1, 1) \o U32 \o Raw(4, 3) \o Raw(4, 1) \o Raw(4, 3)

(* The ROS messages the client reads and nobody here writes. *)
RosImage(a, b, n) ==
    Header(a) \o U32 \o U32 \o Text(b) \o U8 \o U32 \o Items(1, n)
RosDetections(a, b, n) ==
    LET Pose == Array(8, 7) \o Array(8, 36)
        Result == Text(b) \o F64 \o Pose
    IN  Header(a) \o U32
        \o Times(n, Header(a) \o U32 \o Times(n, Result) \o Array(8, 3) \o F64 \o F64 \o Text(b))

-----------------------------------------------------------------------------
(* Who reads what whom.                                                    *)

Exchange(a, b, n) ==
    [jpeg_schema   |-> <<BridgeImage(a, b, n), ImageSchema(a, b, n)>>,
     jpeg          |-> <<BridgeImage(a, b, n), ClientReadsJpeg(a, b, n)>>,
     state_schema  |-> <<BridgeGo2State, Go2StateSchema>>,
     state         |-> <<BridgeGo2State, ClientReadsGo2State>>,
     low_schema    |-> <<BridgeLowState, LowStateSchema>>,
     odom_schema   |-> <<BridgeOdometry(a, b), OdomSchema(a, b)>>,
     odom          |-> <<BridgeOdometry(a, b), ClientReadsYaw(a, b)>>,
     joint_schema  |-> <<BridgeJoints(a, n), JointSchema(a, n)>>,
     tf_schema     |-> <<BridgeTf(a, b), TfSchema(a, b)>>,
     cloud_schema  |-> <<BridgeCloud(a, n), CloudSchema(a, n)>>,
     twist         |-> <<ClientTwist, BridgeReadsTwist>>,
     req           |-> <<ClientReq(a, b), BridgeReadsReq(a, b)>>,
     image         |-> <<RosImage(a, b, n), ClientReadsImage(a, b, n)>>,
     detections    |-> <<RosDetections(a, b, n), ClientReadsDetections(a, b, n)>>]

Fixed == {"state_schema", "state", "low_schema", "twist"}

VARIABLES
    message,  \* the one under way: which, and its lengths
    todo,     \* runs still to write or to read
    cursor,   \* len(buf) of the writer, p - base of the reader
    places,   \* where the writer put each item: <<offset, size>>
    seen,     \* how many items the reader has read
    last      \* where it read the last ones

cdrVars == <<message, todo, cursor, places, seen, last>>

CdrInit ==
    /\ message \in [which : DOMAIN Exchange(0, 0, 0),
                    a : 0..MaxText, b : 0..MaxText, n : 0..MaxItems, side : {"writer"}]
    /\ message.which \in Fixed => message.a = 0 /\ message.b = 0 /\ message.n = 0
    /\ todo = Exchange(message.a, message.b, message.n)[message.which][1]
    /\ cursor = 0 /\ seen = 0
    /\ places = << >> /\ last = << >>

From(run) == Pad(cursor, run[1])
Spots(run) == [i \in 1..run[3] |-> <<From(run) + run[2] * (i - 1), run[2]>>]

(* One call of a writer's method. *)
Encode ==
    /\ message.side = "writer" /\ todo # << >>
    /\ places' = places \o Spots(Head(todo))
    /\ cursor' = From(Head(todo)) + Head(todo)[2] * Head(todo)[3]
    /\ todo' = Tail(todo)
    /\ UNCHANGED <<message, seen, last>>

Deliver ==
    /\ message.side = "writer" /\ todo = << >>
    /\ message' = [message EXCEPT !.side = "reader"]
    /\ todo' = Exchange(message.a, message.b, message.n)[message.which][2]
    /\ cursor' = 0
    /\ UNCHANGED <<places, seen, last>>

(* One call of a reader's, or one field of a schema. *)
Decode ==
    /\ message.side = "reader" /\ todo # << >>
    /\ last' = Spots(Head(todo))
    /\ seen' = seen + Head(todo)[3]
    /\ cursor' = From(Head(todo)) + Head(todo)[2] * Head(todo)[3]
    /\ todo' = Tail(todo)
    /\ UNCHANGED <<message, places>>

CdrNext == Encode \/ Deliver \/ Decode

(* Every field is read where it was written, by the decoders of the robot  *)
(* client and the bridge and by whoever goes by the announced schema,      *)
(* whatever the lengths of strings and sequences do to the padding; a      *)
(* reader may stop early, and never reads past the end.                    *)
FieldsWhereWritten ==
    /\ seen <= Len(places) \/ message.side = "writer"
    /\ last = SubSeq(places, seen - Len(last) + 1, seen)
=============================================================================
