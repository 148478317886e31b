---------------------------- MODULE Parts_proofs ----------------------------
(***************************************************************************)
(* The parts that share no state.  Of the laptop bridge: commands reach    *)
(* the dog in order, and a drawn point stays drawn.  Of the lidar nodes:   *)
(* the map has the nearest of all the points met, and its file what it     *)
(* says, and only recent clouds are shown.  Of the video producer: nothing *)
(* is lost between two segments.  Of the greeter: one greeting for each    *)
(* visit.  Of the object search: the sweep misses nothing, two frames      *)
(* confirm only what is there, and what it says it faces it faces.  For    *)
(* any number of frames, points, voxels, images and units of the circle.   *)
(***************************************************************************)
EXTENDS ApBridge, CloudView, LidarMap, VideoProducer, GreeterLatch, Facing,
        FiniteSetTheorems, SequenceTheorems, TLAPS

-----------------------------------------------------------------------------
(* The laptop bridge.                                                      *)

ApSpec == ApInit /\ [][ApNext]_apVars

Frames == [op : {"advertise"}, topic : Topic, id : Nat]
            \cup [op : {"unadvertise"}, id : Nat]
            \cup [op : {"data"}, command : Nat, idle : BOOLEAN]

(* Commands in a stream: in the order of their numbers, after a number, up *)
(* to a number.                                                            *)
Command(stream, i) == i \in 1..Len(stream) /\ stream[i].op = "data"
InTurn(stream) ==
    \A i, j \in Nat : Command(stream, i) /\ Command(stream, j) /\ i < j =>
        stream[i].command < stream[j].command
After(n, stream) == \A i \in Nat : Command(stream, i) => n < stream[i].command
Upto(stream, n) == \A i \in Nat : Command(stream, i) => stream[i].command <= n

(* What is on the socket was published after what the dog got.             *)
Stream ==
    /\ channel \in [Topic -> Nat] /\ channels \in Nat /\ made \in Nat
    /\ down \in Seq(Frames) /\ InTurn(down) /\ Upto(down, made)
    /\ got \in Seq(Nat) /\ InOrder
    /\ \A k \in 1..Len(got) : got[k] <= made /\ After(got[k], down)

LEMMA NoCommands ==
    ASSUME NEW stream, \A i \in Nat : ~Command(stream, i), NEW n \in Nat
    PROVE  InTurn(stream) /\ After(n, stream) /\ Upto(stream, n)
  BY DEF InTurn, After, Upto

LEMMA ReadStream ==
    ASSUME NEW stream \in Seq(Frames), stream # << >>, InTurn(stream)
    PROVE  /\ Tail(stream) \in Seq(Frames) /\ Head(stream) \in Frames
           /\ InTurn(Tail(stream))
           /\ \A n \in Nat : After(n, stream) => After(n, Tail(stream))
           /\ \A n \in Nat : Upto(stream, n) => Upto(Tail(stream), n)
           /\ Head(stream).op = "data" =>
                 /\ After(Head(stream).command, Tail(stream))
                 /\ \A n \in Nat : After(n, stream) => n < Head(stream).command
                 /\ \A n \in Nat : Upto(stream, n) => Head(stream).command <= n
<1>1. /\ Tail(stream) \in Seq(Frames) /\ Head(stream) \in Frames
      /\ Len(stream) \in Nat /\ Len(stream) >= 1
      /\ Len(Tail(stream)) = Len(stream) - 1
      /\ \A i \in 1..Len(Tail(stream)) : Tail(stream)[i] = stream[i + 1]
      /\ Head(stream) = stream[1]
  BY HeadTailProperties, EmptySeq, LenProperties
<1>2. \A i \in Nat : Command(Tail(stream), i) =>
         Command(stream, i + 1) /\ Tail(stream)[i] = stream[i + 1] /\ i >= 1
  BY <1>1 DEF Command
<1>3. Head(stream).op = "data" => Command(stream, 1)
  BY <1>1 DEF Command
<1>4. InTurn(Tail(stream))
  <2> SUFFICES ASSUME NEW i \in Nat, NEW j \in Nat, Command(Tail(stream), i),
                      Command(Tail(stream), j), i < j
               PROVE  Tail(stream)[i].command < Tail(stream)[j].command
    BY DEF InTurn
  <2>1. stream[i + 1].command < stream[j + 1].command
    <3>1. i + 1 \in Nat /\ j + 1 \in Nat /\ i + 1 < j + 1
      OBVIOUS
    <3> QED BY <1>2, <3>1 DEF InTurn
  <2> QED BY <1>2, <2>1
<1>5. ASSUME NEW n \in Nat, After(n, stream) PROVE After(n, Tail(stream))
  <2> SUFFICES ASSUME NEW i \in Nat, Command(Tail(stream), i) PROVE n < Tail(stream)[i].command
    BY DEF After
  <2>1. Command(stream, i + 1) /\ Tail(stream)[i] = stream[i + 1]
    BY <1>2, Zenon
  <2>2. i + 1 \in Nat
    OBVIOUS
  <2> QED BY <1>5, <2>1, <2>2 DEF After
<1>6. ASSUME NEW n \in Nat, Upto(stream, n) PROVE Upto(Tail(stream), n)
  <2> SUFFICES ASSUME NEW i \in Nat, Command(Tail(stream), i) PROVE Tail(stream)[i].command <= n
    BY DEF Upto
  <2>1. Command(stream, i + 1) /\ Tail(stream)[i] = stream[i + 1]
    BY <1>2, Zenon
  <2>2. i + 1 \in Nat
    OBVIOUS
  <2> QED BY <1>6, <2>1, <2>2 DEF Upto
<1>7. ASSUME Head(stream).op = "data" PROVE After(Head(stream).command, Tail(stream))
  <2> SUFFICES ASSUME NEW i \in Nat, Command(Tail(stream), i)
               PROVE  Head(stream).command < Tail(stream)[i].command
    BY DEF After
  <2>1. 1 \in Nat /\ i + 1 \in Nat /\ 1 < i + 1
    BY <1>2
  <2>2. stream[1].command < stream[i + 1].command
    BY <1>2, <1>3, <1>7, <2>1 DEF InTurn
  <2> QED BY <1>1, <1>2, <2>2
<1>8. ASSUME Head(stream).op = "data"
      PROVE  /\ \A n \in Nat : After(n, stream) => n < Head(stream).command
             /\ \A n \in Nat : Upto(stream, n) => Head(stream).command <= n
  BY <1>1, <1>3, <1>8 DEF After, Upto
<1> QED BY <1>1, <1>4, <1>5, <1>6, <1>7, <1>8

LEMMA TellStream ==
    ASSUME NEW stream \in Seq(Frames), NEW frame \in Frames, NEW n \in Nat,
           InTurn(stream), Upto(stream, n),
           frame.op = "data" => frame.command > n
    PROVE  /\ Append(stream, frame) \in Seq(Frames)
           /\ InTurn(Append(stream, frame))
           /\ \A m \in Nat : m <= n /\ After(m, stream) => After(m, Append(stream, frame))
           /\ \A m \in Nat : n <= m /\ (frame.op = "data" => frame.command <= m)
                                => Upto(Append(stream, frame), m)
<1> DEFINE longer == Append(stream, frame)
<1>1. /\ longer \in Seq(Frames) /\ Len(longer) = Len(stream) + 1 /\ Len(stream) \in Nat
      /\ \A i \in 1..Len(stream) : longer[i] = stream[i]
      /\ longer[Len(stream) + 1] = frame
  BY AppendProperties, LenProperties
<1> HIDE DEF longer
<1>2. \A i \in Nat : Command(longer, i) =>
         \/ Command(stream, i) /\ longer[i] = stream[i] /\ i <= Len(stream)
         \/ i = Len(stream) + 1 /\ longer[i] = frame /\ frame.op = "data"
  BY <1>1 DEF Command
<1>3. \A f \in Frames : f.op = "data" => f.command \in Nat
  BY DEF Frames
<1>4. \A i \in Nat : Command(stream, i) => stream[i].command \in Nat
  BY <1>3 DEF Command
<1>5. InTurn(longer)
  <2> SUFFICES ASSUME NEW i \in Nat, NEW j \in Nat, Command(longer, i), Command(longer, j), i < j
               PROVE  longer[i].command < longer[j].command
    BY DEF InTurn
  <2>1. Command(stream, i) /\ longer[i] = stream[i] /\ i <= Len(stream)
    BY <1>1, <1>2
  <2>2. CASE Command(stream, j) /\ longer[j] = stream[j]
    BY <2>1, <2>2 DEF InTurn
  <2>3. CASE longer[j] = frame /\ frame.op = "data"
    <3>1. stream[i].command <= n /\ stream[i].command \in Nat
      BY <1>4, <2>1 DEF Upto
    <3> QED BY <1>3, <2>1, <2>3, <3>1
  <2> QED BY <1>2, <2>2, <2>3
<1>6. ASSUME NEW m \in Nat, m <= n, After(m, stream) PROVE After(m, longer)
  BY <1>2, <1>3, <1>6 DEF After
<1>7. ASSUME NEW m \in Nat, n <= m, frame.op = "data" => frame.command <= m
      PROVE  Upto(longer, m)
  BY <1>2, <1>4, <1>7 DEF Upto
<1> QED BY <1>1, <1>5, <1>6, <1>7 DEF longer

LEMMA Singletons == ASSUME NEW S, NEW e \in S PROVE <<e>> \in Seq(S)
  OBVIOUS

LEMMA StreamInit == ApInit => Stream
<1> SUFFICES ASSUME ApInit PROVE Stream
  OBVIOUS
<1>1. down = << >> /\ got = << >> /\ made = 0
  BY DEF ApInit
<1>2. \A i \in Nat : ~Command(down, i)
  BY <1>1 DEF Command
<1>3. InTurn(down) /\ Upto(down, made)
  BY <1>1, <1>2, NoCommands
<1>4. channel \in [Topic -> Nat] /\ channels \in Nat
  BY DEF ApInit, Nothing
<1> QED BY <1>1, <1>3, <1>4 DEF Stream, InOrder

(* A frame of the server's joins the end of the socket. *)
LEMMA ToldKeeps ==
    ASSUME Stream, NEW frame \in Frames, Tell(frame), UNCHANGED got,
           channel' \in [Topic -> Nat], channels' \in Nat, made' \in Nat, made <= made',
           frame.op = "data" => frame.command = made + 1 /\ made' = made + 1
    PROVE  Stream'
<1>1. CASE down' = Append(down, frame)
  <2>1. /\ down \in Seq(Frames) /\ InTurn(down) /\ Upto(down, made) /\ made \in Nat
    BY DEF Stream
  <2>2. frame.op = "data" => frame.command > made /\ frame.command <= made'
    BY <2>1
  <2>3. down' \in Seq(Frames) /\ InTurn(down') /\ Upto(down', made')
    BY <1>1, <2>1, <2>2, TellStream
  <2>4. ASSUME NEW k \in 1..Len(got) PROVE got[k] <= made' /\ After(got[k], down')
    <3>1. got[k] \in Nat /\ got[k] <= made /\ After(got[k], down)
      BY DEF Stream
    <3>2. After(got[k], down')
      BY <1>1, <2>1, <2>2, <3>1, TellStream
    <3> QED BY <2>1, <3>1, <3>2
  <2>5. got \in Seq(Nat) /\ InOrder'
    BY DEF Stream, InOrder
  <2> QED BY <2>3, <2>4, <2>5 DEF Stream
<1>2. CASE down' = down
  <2>1. Upto(down, made')
    <3>1. ASSUME NEW i \in Nat, Command(down, i) PROVE down[i].command <= made'
      <4>1. down[i] \in Frames /\ down[i].op = "data" /\ down[i].command <= made
        BY <3>1 DEF Stream, Upto, Command
      <4>2. down[i].command \in Nat
        BY <4>1 DEF Frames
      <4> QED BY <4>1, <4>2 DEF Stream
    <3> QED BY <3>1 DEF Upto
  <2>2. \A k \in 1..Len(got) : got[k] \in Nat /\ got[k] <= made'
    BY DEF Stream
  <2> QED BY <1>2, <2>1, <2>2 DEF Stream, InOrder
<1> QED BY <1>1, <1>2 DEF Tell

(* Whatever leaves the socket as it is, and the dog with what it has.      *)
LEMMA QuietKeeps ==
    ASSUME Stream, UNCHANGED <<channel, channels, made, down, got>> PROVE Stream'
  BY DEF Stream, InOrder

LEMMA StreamStep == ASSUME Stream, ApNext PROVE Stream'
<1>1. CASE ConnectDog \/ Shutdown \/ Accept \/ DogLeaves
  BY <1>1, QuietKeeps DEF ConnectDog, Shutdown, Accept, DogLeaves, serverVars
<1>2. CASE ConnectBridge
  <2> DEFINE velocity == IF channel["/cmd_vel_out"] = Nothing THEN << >>
                         ELSE << [op |-> "advertise", topic |-> "/cmd_vel_out",
                                  id |-> channel["/cmd_vel_out"]] >>
             requests == IF channel["/webrtc_req"] = Nothing THEN << >>
                         ELSE << [op |-> "advertise", topic |-> "/webrtc_req",
                                  id |-> channel["/webrtc_req"]] >>
  <2> DEFINE Adverts == [op : {"advertise"}, topic : Topic, id : Nat]
  <2>1. down' = velocity \o requests /\ UNCHANGED <<channel, channels, made, got>>
    BY <1>2 DEF ConnectBridge, serverVars
  <2>2. velocity \in Seq(Adverts) /\ requests \in Seq(Adverts)
    <3>1. ASSUME NEW t \in Topic
          PROVE  [op |-> "advertise", topic |-> t, id |-> channel[t]] \in Adverts
      BY DEF Stream
    <3> HIDE DEF Adverts
    <3>2. ASSUME NEW t \in Topic
          PROVE  << [op |-> "advertise", topic |-> t, id |-> channel[t]] >> \in Seq(Adverts)
      BY <3>1, Singletons
    <3>3. << >> \in Seq(Adverts)
      OBVIOUS
    <3>4. velocity \in Seq(Adverts)
      BY <3>2, <3>3, Zenon DEF Topic
    <3>5. requests \in Seq(Adverts)
      BY <3>2, <3>3, Zenon DEF Topic
    <3> QED BY <3>4, <3>5
  <2>3. down' \in Seq(Adverts)
    <3> HIDE DEF velocity, requests, Adverts
    <3> QED BY <2>1, <2>2, ConcatProperties
  <2>4. \A i \in 1..Len(down') : down'[i] \in Adverts
    <3> HIDE DEF Adverts
    <3> QED BY <2>3
  <2>5. \A i \in Nat : ~Command(down', i)
    <3>1. \A e \in Adverts : e.op # "data"
      OBVIOUS
    <3> HIDE DEF Adverts
    <3> QED BY <2>4, <3>1 DEF Command
  <2>6. down' \in Seq(Frames)
    <3>1. \A i \in 1..Len(down') : down'[i] \in Frames
      BY <2>4 DEF Frames
    <3> QED BY <2>3, <3>1, IsASeq
  <2>7. InTurn(down') /\ \A n \in Nat : After(n, down') /\ Upto(down', n)
    <3> HIDE DEF Adverts, velocity, requests
    <3> QED BY <2>5, NoCommands
  <2> QED BY <2>1, <2>6, <2>7 DEF Stream, InOrder
<1>3. CASE Run
  <2>1. /\ down # << >> /\ down' = Tail(down) /\ UNCHANGED <<channel, channels, made>>
        /\ \/ UNCHANGED got
           \/ Head(down).op = "data" /\ got' = Append(got, Head(down).command)
    BY <1>3, ReadStream DEF Run, Dispatch, ReadFrame, ToDog, serverVars, Stream, Frames
  <2>2. /\ down \in Seq(Frames) /\ InTurn(down) /\ Upto(down, made) /\ made \in Nat
    BY DEF Stream
  <2>3. down' \in Seq(Frames) /\ InTurn(down') /\ Upto(down', made)
    BY <2>1, <2>2, ReadStream
  <2>4. \A k \in 1..Len(got) : got[k] \in Nat /\ got[k] <= made /\ After(got[k], down')
    BY <2>1, <2>2, ReadStream DEF Stream
  <2>5. CASE UNCHANGED got
    BY <2>1, <2>3, <2>4, <2>5 DEF Stream, InOrder
  <2>6. CASE Head(down).op = "data" /\ got' = Append(got, Head(down).command)
    <3> DEFINE n == Head(down).command
    <3>1. n \in Nat /\ n <= made /\ After(n, down')
      <4>1. Head(down) \in Frames
        BY <2>1, <2>2, ReadStream
      <4>2. n \in Nat
        BY <2>6, <4>1 DEF Frames
      <4> QED BY <2>1, <2>2, <2>6, <4>2, ReadStream
    <3>2. \A k \in 1..Len(got) : got[k] < n
      <4> SUFFICES ASSUME NEW k \in 1..Len(got) PROVE got[k] < n
        OBVIOUS
      <4>1. got[k] \in Nat /\ After(got[k], down)
        BY DEF Stream
      <4> QED BY <2>1, <2>2, <2>6, <4>1, ReadStream
    <3> HIDE DEF n
    <3>3. /\ got' \in Seq(Nat) /\ Len(got') = Len(got) + 1 /\ Len(got) \in Nat
          /\ \A k \in 1..Len(got) : got'[k] = got[k]
          /\ got'[Len(got) + 1] = n
      BY <2>6, <3>1, AppendProperties, LenProperties DEF Stream, n
    <3>4. \A k \in 1..Len(got') : got'[k] <= made /\ After(got'[k], down')
      BY <2>4, <3>1, <3>3
    <3>5. InOrder'
      <4>1. \A k, l \in 1..Len(got) : k < l => got[k] < got[l]
        BY DEF Stream, InOrder
      <4>2. \A k, l \in 1..Len(got') : k < l => got'[k] < got'[l]
        BY <3>2, <3>3, <4>1
      <4> QED BY <3>3, <4>2 DEF InOrder
    <3> QED BY <2>1, <2>3, <3>3, <3>4, <3>5 DEF Stream
  <2> QED BY <2>1, <2>5, <2>6
<1>4. ASSUME NEW t \in Topic, Advertise(t) PROVE Stream'
  <2> DEFINE frame == [op |-> "advertise", topic |-> t, id |-> channels + 1]
  <2>1. frame \in Frames /\ frame.op # "data"
    BY DEF Stream, Frames
  <2>2. /\ Tell(frame) /\ UNCHANGED <<made, got>>
        /\ channel' \in [Topic -> Nat] /\ channels' \in Nat
    BY <1>4 DEF Advertise, Stream
  <2> HIDE DEF frame
  <2> QED BY <2>1, <2>2, ToldKeeps DEF Stream
<1>5. ASSUME NEW t \in Topic, Unadvertise(t) PROVE Stream'
  <2> DEFINE frame == [op |-> "unadvertise", id |-> channel[t]]
  <2>1. frame \in Frames /\ frame.op # "data"
    BY DEF Stream, Frames
  <2>2. /\ Tell(frame) /\ UNCHANGED <<made, got>>
        /\ channel' \in [Topic -> Nat] /\ channels' \in Nat
    BY <1>5 DEF Unadvertise, Stream, Nothing
  <2> HIDE DEF frame
  <2> QED BY <2>1, <2>2, ToldKeeps DEF Stream
<1>6. ASSUME NEW t \in Topic, Publish(t) PROVE Stream'
  <2>1. PICK idle \in BOOLEAN : Tell([op |-> "data", command |-> made + 1, idle |-> idle])
    BY <1>6 DEF Publish
  <2> DEFINE frame == [op |-> "data", command |-> made + 1, idle |-> idle]
  <2>2. frame \in Frames
    BY DEF Stream, Frames
  <2>3. frame.op = "data" /\ frame.command = made + 1
    OBVIOUS
  <2>4. made' = made + 1 /\ UNCHANGED <<channel, channels, got>> /\ Tell(frame)
    BY <1>6, <2>1 DEF Publish
  <2> HIDE DEF frame
  <2> QED BY <2>2, <2>3, <2>4, ToldKeeps DEF Stream
<1> QED BY <1>1, <1>2, <1>3, <1>4, <1>5, <1>6 DEF ApNext

LEMMA StreamAlways == ApSpec => []Stream
<1>1. ASSUME Stream, [ApNext]_apVars PROVE Stream'
  <2>1. CASE ApNext
    BY <1>1, <2>1, StreamStep
  <2>2. CASE UNCHANGED apVars
    BY <1>1, <2>2, QuietKeeps DEF apVars, serverVars
  <2> QED BY <1>1, <2>1, <2>2
<1> QED BY StreamInit, <1>1, PTL DEF ApSpec

(* What is published in the cloud reaches the dog in that order and at     *)
(* most once: run() reads one ordered socket and the two callbacks send    *)
(* before they return, over whatever subscriptions and channels.           *)
THEOREM CommandsArriveInOrder == ApSpec => []InOrder
<1>1. Stream => InOrder
  BY DEF Stream
<1> QED BY StreamAlways, <1>1, PTL

-----------------------------------------------------------------------------
(* The view of the bridge's point cloud.                                   *)

CloudSpec == CloudInit /\ [][CloudNext]_cloudViewVars

(* What is drawn is of the cloud, and in view from where it was drawn for. *)
Drawn == shown \subseteq CellsInView(cloud, from)

LEMMA NearestAreOf ==
    ASSUME NEW at, NEW p, NEW n, NEW near \in Nearest(at, p, n)
    PROVE  near \subseteq DOMAIN at
<1>1. CASE Cardinality(DOMAIN at) <= n
  BY <1>1 DEF Nearest
<1>2. CASE ~(Cardinality(DOMAIN at) <= n)
  BY <1>2 DEF Nearest, kSubset
<1> QED BY <1>1, <1>2

(* More of the cloud shows more cells. *)
LEMMA MoreInView ==
    ASSUME NEW few, NEW many, few \subseteq many, NEW p
    PROVE  CellsInView(few, p) \subseteq CellsInView(many, p)
<1> SUFFICES ASSUME NEW c \in CellsInView(few, p) PROVE c \in CellsInView(many, p)
  OBVIOUS
<1>1. c \in {Cell(k) : k \in few} /\ Away((2 * c + 1) * Ratio, p) <= Radius
  BY Zenon DEF CellsInView, Centres
<1>2. c \in {Cell(k) : k \in many}
  BY <1>1
<1> QED BY <1>1, <1>2, Zenon DEF CellsInView, Centres

LEMMA DrawnFrom ==
    ASSUME OnLidar
    PROVE  \E sweep \in SUBSET Voxel :
              /\ shown' \subseteq CellsInView(cloud', pose) /\ from' = pose
              /\ ~capped' => /\ cloud' = cloud \cup sweep
                             /\ shown' = CellsInView(cloud', pose)
<1>1. PICK k \in 1..MaxSweep : \E sweep \in kSubset(k, Voxel) :
          \E kept \in Nearest(AtKeys(cloud \cup sweep), pose, MaxPoints) :
          \E seen \in Nearest(Centres(CellsInView(kept, pose)), pose, PublishPoints) :
             /\ cloud' = kept /\ shown' = seen /\ from' = pose
             /\ capped' = (kept # cloud \cup sweep \/ seen # CellsInView(kept, pose))
  BY Zenon DEF OnLidar
<1>2. PICK sweep \in kSubset(k, Voxel) :
          \E kept \in Nearest(AtKeys(cloud \cup sweep), pose, MaxPoints) :
          \E seen \in Nearest(Centres(CellsInView(kept, pose)), pose, PublishPoints) :
             /\ cloud' = kept /\ shown' = seen /\ from' = pose
             /\ capped' = (kept # cloud \cup sweep \/ seen # CellsInView(kept, pose))
  BY <1>1, Zenon
<1>3. sweep \in SUBSET Voxel
  BY DEF kSubset
<1>4. PICK kept \in Nearest(AtKeys(cloud \cup sweep), pose, MaxPoints) :
          \E seen \in Nearest(Centres(CellsInView(kept, pose)), pose, PublishPoints) :
             /\ cloud' = kept /\ shown' = seen /\ from' = pose
             /\ capped' = (kept # cloud \cup sweep \/ seen # CellsInView(kept, pose))
  BY <1>2, Zenon
<1>5. PICK seen \in Nearest(Centres(CellsInView(kept, pose)), pose, PublishPoints) :
             /\ cloud' = kept /\ shown' = seen /\ from' = pose
             /\ capped' = (kept # cloud \cup sweep \/ seen # CellsInView(kept, pose))
  BY <1>4, Zenon
<1>6. DOMAIN Centres(CellsInView(kept, pose)) = CellsInView(kept, pose)
  BY DEF Centres
<1>7. seen \subseteq CellsInView(kept, pose)
  BY <1>6, NearestAreOf
<1>8. ~capped' => kept = cloud \cup sweep /\ seen = CellsInView(kept, pose)
  BY <1>5
<1> QED BY <1>3, <1>5, <1>7, <1>8

(* What is drawn stays drawn while the robot stands still: _stable_view.   *)
THEOREM ViewIsStable == CloudSpec => StableView
<1>1. CloudInit => Drawn
  BY DEF CloudInit, Drawn
<1>2. ASSUME Drawn, [CloudNext]_cloudViewVars PROVE Drawn'
  <2>1. CASE OnLidar
    BY <2>1, DrawnFrom DEF Drawn
  <2>2. CASE UNCHANGED <<cloud, shown, from>>
    BY <1>2, <2>2 DEF Drawn
  <2> QED BY <1>2, <2>1, <2>2 DEF CloudNext, OnOdom, cloudViewVars
<1>3. ASSUME Drawn, [CloudNext]_cloudViewVars
      PROVE  [shown' # shown /\ from' = from /\ ~capped' => shown \subseteq shown']_cloudViewVars
  <2> SUFFICES ASSUME CloudNext, shown' # shown, from' = from, ~capped'
               PROVE  shown \subseteq shown'
    BY <1>3
  <2>1. OnLidar
    BY DEF CloudNext, OnOdom
  <2>2. PICK sweep \in SUBSET Voxel : /\ from' = pose /\ cloud' = cloud \cup sweep
                                      /\ shown' = CellsInView(cloud', pose)
    BY <2>1, DrawnFrom
  <2>3. CellsInView(cloud, pose) \subseteq CellsInView(cloud', pose)
    BY <2>2, MoreInView
  <2> QED BY <1>3, <2>2, <2>3 DEF Drawn
<1> QED BY <1>1, <1>2, <1>3, PTL DEF CloudSpec, StableView

-----------------------------------------------------------------------------
(* The map of the lidar nodes.                                             *)

LidarSpec == LidarInit /\ [][LidarNext]_lidarVars

(* The map holds only what was met, no more than fits, and the nearest. *)
Mapped ==
    /\ met \subseteq Spot /\ points \subseteq met
    /\ Cardinality(points) <= MapPoints
    /\ KeepsTheNearest

LEMMA DistanceIsInt == \A x \in Spot : Distance(x) \in Int
  BY LidarAssumption DEF Distance

LEMMA Counted ==
    ASSUME NEW S \in SUBSET Spot
    PROVE  /\ IsFiniteSet(S) /\ Cardinality(S) \in Nat
           /\ \A T \in SUBSET S : /\ Cardinality(T) \in Nat /\ Cardinality(T) <= Cardinality(S)
                                  /\ Cardinality(T) = Cardinality(S) => T = S
<1>1. IsFiniteSet(S)
  BY LidarAssumption, FS_Subset
<1>2. \A T \in SUBSET S : IsFiniteSet(T)
  BY <1>1, FS_Subset
<1>3. Cardinality(S) \in Nat /\ \A T \in SUBSET S : Cardinality(T) \in Nat
  BY <1>1, <1>2, FS_CardinalityType
<1> QED BY <1>1, <1>3, FS_Subset

(* Trimming once more keeps the nearest of everything: a point dropped     *)
(* before is as far away as every point that was kept then, and a newcomer *)
(* takes the place of such a one.                                          *)
LEMMA TrimKeepsNearest ==
    ASSUME Mapped, NEW arrived \in SUBSET Spot, NEW kept \in Trimmed(points, arrived),
           NEW y \in (met \cup arrived) \ kept
    PROVE  /\ Cardinality(kept) = MapPoints
           /\ \A x \in kept : Distance(x) <= Distance(y)
<1> DEFINE all == points \cup arrived
<1>1. points \in SUBSET Spot /\ all \in SUBSET Spot /\ points \in SUBSET all /\ y \in Spot
  BY DEF Mapped
<1>2. /\ Cardinality(points) \in Nat /\ Cardinality(all) \in Nat
      /\ Cardinality(points) <= Cardinality(all)
      /\ Cardinality(points) = Cardinality(all) => points = all
  <2> HIDE DEF all
  <2> QED BY <1>1, Counted
<1>3. y \in met \ points => /\ Cardinality(points) = MapPoints
                            /\ \A x \in points : Distance(x) <= Distance(y)
  BY DEF Mapped, KeepsTheNearest
<1>4. CASE Cardinality(all) <= MapPoints
  <2>1. kept = all
    BY <1>4 DEF Trimmed
  <2>2. y \in met \ points
    BY <2>1
  <2>3. Cardinality(points) = Cardinality(all)
    BY <1>2, <1>3, <1>4, <2>2
  <2>4. kept = points
    BY <1>2, <2>1, <2>3
  <2> QED BY <1>3, <2>2, <2>4
<1>5. CASE ~(Cardinality(all) <= MapPoints)
  <2>1. /\ kept \in SUBSET all /\ Cardinality(kept) = MapPoints
        /\ \A x \in kept, z \in all \ kept : Distance(x) <= Distance(z)
    BY <1>5 DEF Trimmed, kSubset
  <2>2. CASE y \in all
    BY <2>1, <2>2
  <2>3. CASE y \notin all
    <3>1. /\ Cardinality(points) = MapPoints
          /\ \A x \in points : Distance(x) <= Distance(y)
      BY <1>3, <2>3
    <3> SUFFICES ASSUME NEW x \in kept PROVE Distance(x) <= Distance(y)
      BY <2>1
    <3>2. CASE x \in points
      BY <3>1, <3>2
    <3>3. CASE x \notin points
      <4>1. kept \in SUBSET Spot
        BY <1>1, <2>1
      <4>2. ~(points \subseteq kept)
        BY <2>1, <3>1, <3>3, <4>1, Counted
      <4>3. PICK z \in points : z \notin kept
        BY <4>2
      <4>4. Distance(x) <= Distance(z) /\ Distance(z) <= Distance(y)
        BY <1>1, <2>1, <3>1, <4>3
      <4>5. Distance(x) \in Int /\ Distance(y) \in Int /\ Distance(z) \in Int
        BY <1>1, <4>1, <4>3, DistanceIsInt
      <4> QED BY <4>4, <4>5
    <3> QED BY <3>2, <3>3
  <2> QED BY <2>2, <2>3
<1> QED BY <1>4, <1>5

LEMMA MappedInit == LidarInit => Mapped
  BY FS_EmptySet, LidarAssumption DEF LidarInit, Mapped, KeepsTheNearest

LEMMA MappedStep == ASSUME Mapped, LidarNext PROVE Mapped'
<1>1. CASE LidarCallback
  <2>1. PICK n \in 0..MaxBatch : \E arrived \in kSubset(n, Spot) :
            \E kept \in Trimmed(points, arrived) : points' = kept /\ met' = met \cup arrived
    BY <1>1 DEF LidarCallback
  <2>2. PICK arrived \in SUBSET Spot :
            \E kept \in Trimmed(points, arrived) : points' = kept /\ met' = met \cup arrived
    BY <2>1 DEF kSubset
  <2>3. PICK kept \in Trimmed(points, arrived) : points' = kept /\ met' = met \cup arrived
    BY <2>2
  <2>4. kept \subseteq points \cup arrived /\ Cardinality(kept) <= MapPoints
    <3>1. CASE Cardinality(points \cup arrived) <= MapPoints
      BY <3>1 DEF Trimmed
    <3>2. CASE ~(Cardinality(points \cup arrived) <= MapPoints)
      <4>1. kept \in SUBSET (points \cup arrived) /\ Cardinality(kept) = MapPoints
        BY <3>2 DEF Trimmed, kSubset
      <4> QED BY <4>1, LidarAssumption
    <3> QED BY <3>1, <3>2
  <2>5. KeepsTheNearest'
    <3> SUFFICES ASSUME NEW y \in met' \ points'
                 PROVE  /\ Cardinality(points') = MapPoints
                        /\ \A x \in points' : Distance(x) <= Distance(y)
      BY DEF KeepsTheNearest
    <3> QED BY <2>3, <2>2, TrimKeepsNearest
  <2> QED BY <2>3, <2>2, <2>4, <2>5 DEF Mapped
<1>2. CASE SaveMapCallback
  BY <1>2 DEF SaveMapCallback, Mapped, KeepsTheNearest
<1>3. CASE PointcloudCallback \/ PublishCallback
  BY <1>3 DEF PointcloudCallback, PublishCallback, mapVars, Mapped, KeepsTheNearest
<1> QED BY <1>1, <1>2, <1>3 DEF LidarNext

(* "keep closest points" (addPoints): whatever the map lacks of all the    *)
(* points ever reported is at least as far from the origin as all that it  *)
(* has, and it is full; in whatever order the points came and were dropped.*)
THEOREM MapKeepsTheNearest == LidarSpec => []KeepsTheNearest
<1>1. ASSUME Mapped, [LidarNext]_lidarVars PROVE Mapped'
  <2>1. CASE LidarNext
    BY <1>1, <2>1, MappedStep
  <2>2. CASE UNCHANGED lidarVars
    BY <1>1, <2>2 DEF Mapped, KeepsTheNearest, lidarVars, mapVars
  <2> QED BY <1>1, <2>1, <2>2
<1>2. Mapped => KeepsTheNearest
  BY DEF Mapped
<1> QED BY MappedInit, <1>1, <1>2, PTL DEF LidarSpec

(* When nothing is marked as unsaved the file is whole and has every voxel *)
(* of the map: points_changed_ of saveMapCallback, whichever writes fail.  *)
THEOREM MapIsSaved == LidarSpec => []SavedUnlessChanged
<1>1. LidarInit => SavedUnlessChanged
  BY DEF LidarInit, SavedUnlessChanged
<1>2. ASSUME SavedUnlessChanged, [LidarNext]_lidarVars PROVE SavedUnlessChanged'
  <2>1. CASE LidarCallback
    BY <2>1 DEF LidarCallback, SavedUnlessChanged
  <2>2. CASE SaveMapCallback
    <3>1. CASE file' = [whole |-> TRUE, cells |-> Voxels(points)] /\ points' = points
      BY <3>1 DEF SavedUnlessChanged, Voxels
    <3>2. CASE changed /\ UNCHANGED changed
      BY <3>2 DEF SavedUnlessChanged
    <3> QED BY <2>2, <3>1, <3>2 DEF SaveMapCallback
  <2>3. CASE UNCHANGED <<points, changed, file>>
    BY <1>2, <2>3 DEF SavedUnlessChanged, Voxels
  <2> QED BY <1>2, <2>1, <2>2, <2>3
          DEF LidarNext, PointcloudCallback, PublishCallback, lidarVars, mapVars
<1> QED BY <1>1, <1>2, PTL DEF LidarSpec

(* The window of the aggregator: a point's date is how far from the end    *)
(* the last cloud with it stands, and a point out of the window is old.    *)
Dated(window, dates) ==
    /\ window \in Seq(SUBSET Spot) /\ Len(window) <= MaxClouds
    /\ dates \in [Spot -> 0..MaxClouds]
    /\ \A x \in Spot, i \in 1..Len(window) : x \in window[i] => dates[x] <= Len(window) - i
    /\ \A x \in Spot : dates[x] < MaxClouds =>
          dates[x] < Len(window) /\ x \in window[Len(window) - dates[x]]

Recent ==
    /\ topic \in Seq(SUBSET Spot)
    /\ Dated(clouds, ago)

Older(dates, fresh) ==
    [x \in Spot |-> IF x \in fresh THEN 0 ELSE IF dates[x] < MaxClouds THEN dates[x] + 1
                    ELSE MaxClouds]

(* A cloud more, and the oldest less when the window is full. *)
LEMMA WindowStaysDated ==
    ASSUME NEW window, NEW dates, Dated(window, dates), NEW fresh \in SUBSET Spot
    PROVE  Dated(Window(window, fresh), Older(dates, fresh))
<1> DEFINE longer == Append(window, fresh)
           next == Window(window, fresh)
           n == Len(window)
<1>1. /\ window \in Seq(SUBSET Spot) /\ n \in Nat /\ n <= MaxClouds
      /\ dates \in [Spot -> 0..MaxClouds] /\ MaxClouds \in Nat \ {0}
  BY LidarAssumption DEF Dated
<1>2. /\ longer \in Seq(SUBSET Spot) /\ Len(longer) = n + 1
      /\ longer[n + 1] = fresh /\ \A i \in 1..n : longer[i] = window[i]
  BY <1>1
<1>3. Older(dates, fresh) \in [Spot -> 0..MaxClouds]
  BY <1>1 DEF Older
<1>4. \A x \in Spot : Older(dates, fresh)[x] =
          IF x \in fresh THEN 0 ELSE IF dates[x] < MaxClouds THEN dates[x] + 1 ELSE MaxClouds
  BY DEF Older
<1>5. /\ \A x \in Spot, i \in 1..n : x \in window[i] => dates[x] <= n - i
      /\ \A x \in Spot : dates[x] < MaxClouds => dates[x] < n /\ x \in window[n - dates[x]]
  BY DEF Dated
<1>6. PICK k \in {0, 1} : /\ Len(next) = n + 1 - k /\ next \in Seq(SUBSET Spot)
                          /\ Len(next) <= MaxClouds
                          /\ k = 1 => n = MaxClouds
                          /\ \A i \in 1..Len(next) : next[i] = longer[i + k]
  <2>1. CASE n + 1 <= MaxClouds
    <3>1. next = longer
      BY <1>2, <2>1 DEF Window
    <3> QED BY <1>2, <2>1, <3>1
  <2>2. CASE ~(n + 1 <= MaxClouds)
    <3>1. n = MaxClouds
      BY <1>1, <2>2
    <3>2. next = SubSeq(longer, 2, n + 1)
      BY <1>1, <1>2, <3>1 DEF Window
    <3> HIDE DEF longer, next
    <3>3. /\ next \in Seq(SUBSET Spot) /\ Len(next) = n
          /\ \A i \in 1..n : next[i] = longer[i + 1]
      BY <1>1, <1>2, <3>2
    <3> QED BY <1>1, <3>1, <3>3
  <2> QED BY <2>1, <2>2
<1> HIDE DEF longer, next
<1>7. ASSUME NEW x \in Spot, NEW i \in 1..Len(next), x \in next[i]
      PROVE  Older(dates, fresh)[x] <= Len(next) - i
  <2>1. CASE x \in fresh
    BY <1>1, <1>4, <1>6, <2>1
  <2>2. CASE x \notin fresh
    <3>1. i + k \in 1..n /\ x \in window[i + k]
      BY <1>1, <1>2, <1>6, <1>7, <2>2
    <3>2. dates[x] <= n - (i + k) /\ dates[x] \in 0..MaxClouds
      BY <1>1, <1>5, <3>1
    <3>3. Older(dates, fresh)[x] = dates[x] + 1
      BY <1>1, <1>4, <2>2, <3>1, <3>2
    <3> QED BY <1>1, <1>6, <3>1, <3>2, <3>3
  <2> QED BY <2>1, <2>2
<1>8. ASSUME NEW x \in Spot, Older(dates, fresh)[x] < MaxClouds
      PROVE  /\ Older(dates, fresh)[x] < Len(next)
             /\ x \in next[Len(next) - Older(dates, fresh)[x]]
  <2>1. CASE x \in fresh
    BY <1>1, <1>2, <1>4, <1>6, <2>1
  <2>2. CASE x \notin fresh
    <3>1. dates[x] \in 0..MaxClouds /\ dates[x] < MaxClouds /\ Older(dates, fresh)[x] = dates[x] + 1
      BY <1>1, <1>4, <1>8, <2>2
    <3>2. dates[x] < n /\ x \in window[n - dates[x]]
      BY <1>5, <3>1
    <3>3. dates[x] + 1 < Len(next)
      BY <1>1, <1>6, <1>8, <3>1, <3>2
    <3>4. Len(next) - (dates[x] + 1) \in 1..Len(next) /\ n - dates[x] \in 1..n
      BY <1>1, <1>6, <3>1, <3>2, <3>3
    <3>5. next[Len(next) - (dates[x] + 1)] = longer[n - dates[x]]
      BY <1>1, <1>6, <3>1, <3>4
    <3> QED BY <1>2, <3>1, <3>2, <3>3, <3>4, <3>5
  <2> QED BY <2>1, <2>2
<1> QED BY <1>3, <1>6, <1>7, <1>8 DEF Dated, next

LEMMA RecentStep == ASSUME Mapped, Mapped', Recent, LidarNext PROVE Recent'
<1>1. CASE LidarCallback
  <2>1. points' \in SUBSET Spot /\ UNCHANGED <<clouds, ago>>
    BY <1>1 DEF LidarCallback, viewVars, Mapped
  <2>2. topic \in Seq(SUBSET Spot) /\ Depth \in Nat \ {0}
    BY LidarAssumption DEF Recent
  <2>3. topic' = topic \/ topic' \in Sent(points')
    BY <1>1 DEF LidarCallback
  <2>4. Append(topic, points') \in Seq(SUBSET Spot)
    BY <2>1, <2>2
  <2>5. Len(topic) >= Depth => Append(Tail(topic), points') \in Seq(SUBSET Spot)
    <3> SUFFICES ASSUME Len(topic) >= Depth
                 PROVE  Append(Tail(topic), points') \in Seq(SUBSET Spot)
      OBVIOUS
    <3>1. Tail(topic) \in Seq(SUBSET Spot)
      BY <2>2
    <3> QED BY <2>1, <3>1
  <2>6. topic' \in Seq(SUBSET Spot)
    <3>1. topic' = topic \/ topic' = Append(topic, points')
          \/ (Len(topic) >= Depth /\ topic' = Append(Tail(topic), points'))
      <4>1. Len(topic) < Depth \/ Len(topic) >= Depth
        BY <2>2
      <4> QED BY <2>3, <4>1 DEF Sent
    <3> QED BY <2>2, <2>4, <2>5, <3>1
  <2> QED BY <2>1, <2>6 DEF Recent
<1>2. CASE SaveMapCallback
  BY <1>2 DEF SaveMapCallback, viewVars, Recent
<1>3. CASE PointcloudCallback
  <2>1. topic # << >> /\ topic' = Tail(topic) /\ Head(topic) \in SUBSET Spot
        /\ topic' \in Seq(SUBSET Spot)
    BY <1>3 DEF PointcloudCallback, Recent
  <2>2. PICK fresh \in Filtered(Head(topic)) :
            IF fresh = {} THEN UNCHANGED <<clouds, ago>>
            ELSE clouds' = Window(clouds, fresh) /\ ago' = Older(ago, fresh)
    BY <1>3 DEF PointcloudCallback, Older
  <2>3. fresh \in SUBSET Spot
    BY <2>1 DEF Filtered
  <2>4. Dated(clouds', ago')
    BY <2>2, <2>3, WindowStaysDated DEF Recent
  <2> QED BY <2>1, <2>4 DEF Recent
<1>4. CASE PublishCallback
  BY <1>4 DEF PublishCallback, Recent
<1> QED BY <1>1, <1>2, <1>3, <1>4 DEF LidarNext

(* "Keep only recent data" (pointcloudCallback): what the aggregator shows *)
(* are all the points of the last clouds it stored and no other, whatever  *)
(* the map dropped, the topic lost and the filters removed.                *)
THEOREM ShowsTheRecent == LidarSpec => ViewIsRecent
<1> DEFINE Shows == filtered' # filtered => filtered' = {x \in Spot : ago[x] < MaxClouds}
<1>1. LidarInit => Mapped /\ Recent
  <2> SUFFICES ASSUME LidarInit PROVE Recent
    BY MappedInit
  <2>1. topic = << >> /\ clouds = << >> /\ ago = [x \in Spot |-> MaxClouds]
    BY DEF LidarInit
  <2> QED BY <2>1, LidarAssumption DEF Recent, Dated
<1>2. ASSUME Mapped, Recent, [LidarNext]_lidarVars PROVE Mapped' /\ Recent'
  <2>1. CASE LidarNext
    BY <1>2, <2>1, MappedStep, RecentStep
  <2>2. CASE UNCHANGED lidarVars
    BY <1>2, <2>2
    DEF Mapped, KeepsTheNearest, Recent, lidarVars, mapVars, viewVars
  <2> QED BY <1>2, <2>1, <2>2
<1>3. ASSUME Recent, [LidarNext]_lidarVars PROVE [Shows]_lidarVars
  <2> SUFFICES ASSUME PublishCallback PROVE filtered' = {x \in Spot : ago[x] < MaxClouds}
    BY <1>3 DEF LidarNext, LidarCallback, SaveMapCallback, PointcloudCallback, viewVars
  <2>1. filtered' = UNION {clouds[i] : i \in 1..Len(clouds)} /\ clouds \in Seq(SUBSET Spot)
    BY <1>3 DEF PublishCallback, ToSet, Recent, Dated
  <2>2. ASSUME NEW x \in Spot, NEW i \in 1..Len(clouds), x \in clouds[i]
        PROVE  ago[x] < MaxClouds
    BY <1>3, <2>1, <2>2, LidarAssumption DEF Recent, Dated
  <2>3. ASSUME NEW x \in Spot, ago[x] < MaxClouds
        PROVE  \E i \in 1..Len(clouds) : x \in clouds[i]
    <3>1. ago[x] \in Nat /\ ago[x] < Len(clouds) /\ x \in clouds[Len(clouds) - ago[x]]
      BY <1>3, <2>3, LidarAssumption DEF Recent, Dated
    <3>2. Len(clouds) - ago[x] \in 1..Len(clouds)
      BY <2>1, <3>1
    <3> QED BY <3>1, <3>2
  <2>4. \A i \in 1..Len(clouds) : clouds[i] \in SUBSET Spot
    BY <2>1
  <2> QED BY <2>1, <2>2, <2>3, <2>4
<1> QED BY <1>1, <1>2, <1>3, PTL DEF LidarSpec, ViewIsRecent

-----------------------------------------------------------------------------
(* The video producer.                                                     *)

VideoSpec == VideoInit /\ [][VideoNext]_videoVars

(* A sequence is the part of another one that follows the first n. *)
LiesAt(part, all, n) == \A i \in 1..Len(part) : part[i] = all[n + i]

(* Where each sample is: past counts those of the segments that are over,  *)
(* the batch holds the next ones, and _frames the rest.                    *)
Segments ==
    /\ latest \in Nat /\ images \in Nat
    /\ samples \in Seq(Nat) /\ batch \in Seq(Nat) /\ frames \in Seq(Nat)
    /\ past \in Nat
    /\ past + Len(batch) + Len(frames) = Len(samples)
    /\ LiesAt(batch, samples, past)
    /\ LiesAt(frames, samples, past + Len(batch))
    /\ upload \notin {"encodes", "sends"} => batch = << >>

LEMMA SegmentsInit == VideoInit => Segments
  BY DEF VideoInit, Segments, LiesAt

LEMMA SegmentsStep == ASSUME Segments, VideoNext PROVE Segments'
<1>1. CASE OnImage
  <2>1. images' \in Nat /\ latest' \in Nat
    BY <1>1, VideoAssumption DEF OnImage, Segments
  <2> QED BY <1>1, <2>1 DEF OnImage, Segments
<1>2. CASE Sample
  <2>1. /\ frames' = Append(frames, latest) /\ samples' = Append(samples, latest)
        /\ UNCHANGED <<latest, images, upload, batch, past>>
    BY <1>2 DEF Sample
  <2>2. /\ frames' \in Seq(Nat) /\ Len(frames') = Len(frames) + 1
        /\ frames'[Len(frames) + 1] = latest
        /\ \A i \in 1..Len(frames) : frames'[i] = frames[i]
    BY <2>1 DEF Segments
  <2>3. /\ samples' \in Seq(Nat) /\ Len(samples') = Len(samples) + 1
        /\ samples'[Len(samples) + 1] = latest
        /\ \A i \in 1..Len(samples) : samples'[i] = samples[i]
    BY <2>1 DEF Segments
  <2>4. /\ Len(frames) \in Nat /\ Len(batch) \in Nat /\ Len(samples) \in Nat /\ past \in Nat
        /\ past + Len(batch) + Len(frames) = Len(samples)
    BY DEF Segments
  <2>5. LiesAt(batch', samples', past')
    <3>1. SUFFICES ASSUME NEW i \in 1..Len(batch) PROVE batch[i] = samples'[past + i]
      BY <2>1 DEF LiesAt
    <3>2. past + i \in 1..Len(samples)
      BY <2>4
    <3>3. batch[i] = samples[past + i]
      BY DEF Segments, LiesAt
    <3> QED BY <2>3, <3>2, <3>3
  <2>6. LiesAt(frames', samples', past' + Len(batch'))
    <3>1. SUFFICES ASSUME NEW i \in 1..Len(frames')
                   PROVE  frames'[i] = samples'[past + Len(batch) + i]
      BY <2>1 DEF LiesAt
    <3>2. CASE i = Len(frames) + 1
      <4>1. past + Len(batch) + i = Len(samples) + 1
        BY <3>2, <2>4
      <4> QED BY <2>2, <2>3, <3>2, <4>1
    <3>3. CASE i \in 1..Len(frames)
      <4>1. past + Len(batch) + i \in 1..Len(samples)
        BY <3>3, <2>4
      <4>2. frames[i] = samples[past + Len(batch) + i]
        BY <3>3 DEF Segments, LiesAt
      <4> QED BY <2>2, <2>3, <3>3, <4>1, <4>2
    <3> QED BY <2>2, <2>4, <3>1, <3>2, <3>3
  <2>7. past' + Len(batch') + Len(frames') = Len(samples')
    <3>1. past' = past /\ Len(batch') = Len(batch)
      BY <2>1
    <3>2. Len(frames') = Len(frames) + 1 /\ Len(samples') = Len(samples) + 1
      BY <2>2, <2>3
    <3> QED BY <2>4, <3>1, <3>2
  <2> QED BY <2>1, <2>2, <2>3, <2>5, <2>6, <2>7 DEF Segments
<1>3. CASE Endpoint
  BY <1>3 DEF Endpoint, Segments
<1>4. CASE TakeBatch
  <2>1. /\ batch = << >> /\ batch' = frames /\ frames' = << >>
        /\ UNCHANGED <<latest, images, samples, past>>
        /\ upload' \notin {"encodes", "sends"} => frames = << >>
    BY <1>4 DEF TakeBatch, Segments
  <2>2. Len(batch) = 0 /\ Len(frames') = 0 /\ Len(frames) \in Nat /\ frames' \in Seq(Nat)
    BY <2>1 DEF Segments
  <2>3. past + Len(batch) = past
    BY <2>2 DEF Segments
  <2>4. LiesAt(batch', samples', past') /\ LiesAt(frames', samples', past' + Len(batch'))
    BY <2>1, <2>2, <2>3 DEF Segments, LiesAt
  <2>5. past' + Len(batch') + Len(frames') = Len(samples')
    BY <2>1, <2>2 DEF Segments
  <2> QED BY <2>1, <2>2, <2>4, <2>5 DEF Segments
<1>5. CASE EncodeFrames /\ upload' = "sends" /\ UNCHANGED batch
  BY <1>5 DEF EncodeFrames, SegmentEnds, Segments
<1>6. CASE SegmentEnds
  <2>1. /\ past' = past + Len(batch) /\ batch' = << >>
        /\ UNCHANGED <<latest, images, frames, samples>>
    BY <1>6 DEF SegmentEnds
  <2>2. /\ Len(batch') = 0 /\ batch' \in Seq(Nat) /\ past' \in Nat
        /\ Len(batch) \in Nat /\ Len(frames) \in Nat /\ past' + Len(batch') = past'
    BY <2>1 DEF Segments
  <2>3. LiesAt(batch', samples', past')
    BY <2>2 DEF LiesAt
  <2>4. LiesAt(frames', samples', past' + Len(batch'))
    <3>1. past' + Len(batch') = past + Len(batch)
      BY <2>1, <2>2
    <3> QED BY <2>1, <3>1 DEF Segments
  <2>5. past' + Len(batch') + Len(frames') = Len(samples')
    BY <2>1, <2>2 DEF Segments
  <2> QED BY <2>1, <2>2, <2>3, <2>4, <2>5 DEF Segments
<1> QED BY <1>1, <1>2, <1>3, <1>4, <1>5, <1>6 DEF VideoNext, EncodeFrames, UploadMkv

LEMMA SegmentsAlways == VideoSpec => []Segments
<1>1. ASSUME Segments, [VideoNext]_videoVars PROVE Segments'
  <2>1. CASE VideoNext
    BY <1>1, <2>1, SegmentsStep
  <2>2. CASE UNCHANGED videoVars
    BY <1>1, <2>2 DEF Segments, videoVars
  <2> QED BY <1>1, <2>1, <2>2
<1> QED BY SegmentsInit, <1>1, PTL DEF VideoSpec

(* Every sample is in exactly one segment, in the order of sampling,       *)
(* however the sampler goes on while the upload thread encodes and sends:  *)
(* the lock around the copy and the clearing of _frames.                   *)
THEOREM VideoHasNoGaps == VideoSpec => []GapFree
<1>1. ASSUME Segments PROVE GapFree
  <2> DEFINE rest == SubSeq(samples, past + 1, Len(samples))
             both == batch \o frames
  <2>1. /\ Len(batch) \in Nat /\ Len(frames) \in Nat /\ Len(samples) \in Nat /\ past \in Nat
        /\ samples \in Seq(Nat) /\ batch \in Seq(Nat) /\ frames \in Seq(Nat)
    BY <1>1 DEF Segments
  <2>2. past + Len(batch) + Len(frames) = Len(samples)
    BY <1>1 DEF Segments
  <2>3. /\ both \in Seq(Nat) /\ Len(both) = Len(batch) + Len(frames)
        /\ \A i \in 1..Len(both) : both[i] = IF i <= Len(batch) THEN batch[i]
                                             ELSE frames[i - Len(batch)]
    BY <2>1, ConcatProperties
  <2>4. /\ rest \in Seq(Nat) /\ Len(rest) = Len(samples) - past
        /\ \A i \in 1..Len(rest) : rest[i] = samples[past + i]
    <3>1. \A i \in past + 1..Len(samples) : i \in 1..Len(samples) /\ samples[i] \in Nat
      BY <2>1
    <3>2. rest \in Seq(Nat)
      BY <2>1, <3>1
    <3>3. Len(rest) = Len(samples) - past
      BY <2>1, <2>2
    <3>4. \A i \in 1..Len(rest) : rest[i] = samples[past + i]
      BY <2>1, <2>2, <3>3
    <3> QED BY <3>2, <3>3, <3>4
  <2> HIDE DEF rest, both
  <2>5. Len(rest) = Len(both)
    BY <2>1, <2>2, <2>3, <2>4
  <2>6. ASSUME NEW i \in 1..Len(both) PROVE rest[i] = both[i]
    <3>1. CASE i <= Len(batch)
      <4>1. i \in 1..Len(batch)
        BY <2>1, <2>3, <3>1
      <4>2. batch[i] = samples[past + i]
        BY <1>1, <4>1 DEF Segments, LiesAt
      <4> QED BY <2>3, <2>4, <2>5, <3>1, <4>2
    <3>2. CASE ~(i <= Len(batch))
      <4>1. i - Len(batch) \in 1..Len(frames) /\ past + Len(batch) + (i - Len(batch)) = past + i
        BY <2>1, <2>3, <3>2
      <4>2. frames[i - Len(batch)] = samples[past + i]
        BY <1>1, <4>1 DEF Segments, LiesAt
      <4> QED BY <2>3, <2>4, <2>5, <3>2, <4>2
    <3> QED BY <3>1, <3>2
  <2>7. rest = both
    BY <2>3, <2>4, <2>5, <2>6, SeqEqual
  <2> QED BY <2>7 DEF rest, both, GapFree
<1> QED BY SegmentsAlways, <1>1, PTL

-----------------------------------------------------------------------------
(* The greeter.                                                            *)

GreeterSpec == GreeterInit /\ [][GreeterNext]_greeterVars

(* Since the last greeting, last_person_ts is no older than the last array *)
(* with a person, unless the loop has yet to poll that one; and the latch  *)
(* is armed again only after somebody has been out of sight for long.      *)
Latch ==
    /\ array \in BOOLEAN /\ unread \in BOOLEAN /\ armed \in BOOLEAN
    /\ age \in Nat /\ unseen \in Nat /\ gap \in Nat
    /\ unseen <= gap
    /\ greeted /\ watch # "greet" /\ ~(unread /\ array) => age <= unseen
    /\ greeted /\ watch # "greet" /\ armed => gap > Reset
    /\ watch = "greet" => ~armed

LEMMA LatchInit == GreeterInit => Latch
<1> SUFFICES ASSUME GreeterInit PROVE Latch
  OBVIOUS
<1>1. ~greeted /\ watch # "greet"
  BY DEF GreeterInit
<1>2. array \in BOOLEAN /\ unread \in BOOLEAN /\ armed \in BOOLEAN
  BY DEF GreeterInit
<1>3. age = 0 /\ unseen = 0 /\ gap = 0
  BY DEF GreeterInit
<1> QED BY <1>1, <1>2, <1>3 DEF Latch

LEMMA LaterFacts ==
    ASSUME NEW m \in Nat, NEW n \in Nat
    PROVE  Later(m) \in Nat /\ m <= Later(m) /\ (m <= n => Later(m) <= Later(n))
  BY GreeterAssumption DEF Later

(* Whoever finds the latch armed, or arms it, has a long absence behind it.*)
LEMMA ReadyAfterGap ==
    ASSUME Latch, Poll, greeted, armed \/ Rearms(inView', age')
    PROVE  gap > Reset
<1>1. watch # "greet"
  BY DEF Poll
<1>2. CASE armed
  BY <1>1, <1>2 DEF Latch
<1>3. CASE ~armed
  <2>1. age' > Reset
    BY <1>3 DEF Rearms
  <2>2. ~(unread /\ array) /\ age' = age
    BY <2>1, GreeterAssumption DEF Poll
  <2>3. age <= unseen /\ unseen <= gap
    BY <1>1, <2>2 DEF Latch
  <2> QED BY <2>1, <2>2, <2>3, GreeterAssumption DEF Latch
<1> QED BY <1>2, <1>3

LEMMA LatchStep == ASSUME Latch, GreeterNext PROVE Latch'
<1>1. CASE ArrayArrives
  BY <1>1 DEF ArrayArrives, Latch
<1>2. CASE TimePasses
  <2>1. age' \in Nat /\ unseen' \in Nat /\ gap' \in Nat /\ unseen' <= gap' /\ gap <= gap'
    BY <1>2, LaterFacts DEF TimePasses, Latch
  <2>2. age <= unseen => age' <= unseen'
    BY <1>2, LaterFacts DEF TimePasses, Latch
  <2>3. watch' = "greet" <=> watch = "greet"
    BY <1>2 DEF TimePasses
  <2>4. UNCHANGED <<array, unread, armed, greeted>>
    BY <1>2 DEF TimePasses
  <2> QED BY <2>1, <2>2, <2>3, <2>4, GreeterAssumption DEF Latch
<1>3. CASE Poll
  <2> DEFINE ready == armed \/ Rearms(inView', age')
             greets == ready /\ inView' /\ inARow' >= ConfirmPolls
  <2>1. /\ watch # "greet" /\ unread' = FALSE
        /\ UNCHANGED <<array, greeted, unseen, gap>>
        /\ age' = IF unread /\ array THEN 0 ELSE age
        /\ armed' = (ready /\ ~greets)
        /\ watch' = IF greets THEN "greet" ELSE "polled"
    BY <1>3 DEF Poll, DebounceTick
  <2>2. greeted /\ armed' => gap > Reset
    BY <1>3, <2>1, ReadyAfterGap
  <2>3. armed' \in BOOLEAN /\ (watch' = "greet" => ~armed')
    BY <2>1
  <2>4. age' \in Nat /\ (greeted => age' <= unseen)
    BY <2>1 DEF Latch
  <2> HIDE DEF greets
  <2> QED BY <2>1, <2>2, <2>3, <2>4 DEF Latch
<1>4. CASE GreetingEnds
  BY <1>4 DEF GreetingEnds, Latch
<1>5. CASE GreetingFails
  BY <1>5 DEF GreetingFails, Latch
<1>6. CASE StatusRead
  BY <1>6 DEF StatusRead, Latch
<1> QED BY <1>1, <1>2, <1>3, <1>4, <1>5, <1>6 DEF GreeterNext

LEMMA LatchAlways == GreeterSpec => []Latch
<1>1. ASSUME Latch, [GreeterNext]_greeterVars PROVE Latch'
  <2>1. CASE GreeterNext
    BY <1>1, <2>1, LatchStep
  <2>2. CASE UNCHANGED greeterVars
    BY <1>1, <2>2 DEF Latch, greeterVars
  <2> QED BY <1>1, <2>1, <2>2
<1> QED BY LatchInit, <1>1, PTL DEF GreeterSpec

(* A visitor who was greeted is greeted again only after a stretch longer  *)
(* than GREETER_RESET_AFTER without an array that shows a person: the      *)
(* latch of _greeter_loop and last_person_ts, whatever the detector misses *)
(* and however long the greeting took.                                     *)
THEOREM GreetsOncePerVisit == GreeterSpec => OnePerVisit
<1>1. ASSUME Latch, [GreeterNext]_greeterVars
      PROVE  [watch = "poll" /\ watch' = "greet" /\ greeted => gap > Reset]_greeterVars
  <2> SUFFICES ASSUME GreeterNext, watch = "poll", watch' = "greet", greeted
               PROVE  gap > Reset
    BY <1>1
  <2>1. Poll
    BY DEF GreeterNext, ArrayArrives, TimePasses, GreetingEnds, GreetingFails, StatusRead
  <2>2. armed \/ Rearms(inView', age')
    BY <2>1 DEF Poll
  <2> QED BY <1>1, <2>1, <2>2, ReadyAfterGap
<1> QED BY LatchAlways, <1>1, PTL DEF GreeterSpec, OnePerVisit

-----------------------------------------------------------------------------
(* The search.                                                             *)

Pictures == [at : Offsets \cup {Missed}, still : BOOLEAN]
Steps == {"confirm", "turn", "settle", "face", "wait", "verdict", "done"}

(* Of frames in the order of capture: those captured since the robot       *)
(* stopped are the last ones.                                              *)
StillLast(photos) ==
    \A i, j \in 1..Len(photos) : i < j /\ photos[i].still => photos[j].still
AllStill(photos) == \A i \in 1..Len(photos) : photos[i].still
NoneStill(photos) == \A i \in 1..Len(photos) : ~photos[i].still
StillShow(photos, at) == \A i \in 1..Len(photos) : photos[i].still => photos[i].at = at

FacingTypes ==
    /\ prompt \in BOOLEAN /\ clear \in BOOLEAN
    /\ view \in -Half..(Half - 1)
    /\ pipe \in Seq(Pictures) /\ cache \in Pictures
    /\ step \in Steps /\ aim \in {"sweep", "face"}
    /\ asked \in Int /\ turned \in Nat /\ swept \in Nat
    /\ step = "done" <=> verdict # "searching"
    /\ streak \in Nat /\ fixes \in Nat

(* What is called still was captured from where the robot is. *)
Stills ==
    /\ StillLast(pipe)
    /\ cache.still => AllStill(pipe)
    /\ step = "turn" => ~cache.still /\ NoneStill(pipe)
    /\ prompt /\ step \in {"confirm", "face", "wait", "verdict"} => cache.still

(* A detector that does not err shows in them what there is. *)
Honest == clear => StillShow(pipe, Truth) /\ (cache.still => cache.at = Truth)

(* How far the robot has turned to the left since the target was in view. *)
Passed(at) == IF at > Width THEN at - Width ELSE at + Circle - Width

(* A target that is not in view was not passed by the sweep, and one that  *)
(* came into view during a step of it does not leave again.                *)
Ahead ==
    /\ step = "confirm" => aim = "sweep"
    /\ step = "turn" /\ aim = "sweep" => asked = Step
    /\ prompt /\ clear /\ ViewsOverlap /\ aim = "sweep" =>
          /\ step \in {"confirm", "settle"} /\ ~Visible(view) => Passed(view) > swept
          /\ step = "turn" /\ ~Visible(view) => Passed(view) > swept + turned
          /\ step = "turn" /\ Visible(view) => view + Width < turned
    /\ prompt /\ clear /\ ViewsOverlap => verdict # "not_found"

(* A frame that shows the target where it is not. *)
Mistaken(frame, at) == frame.still /\ frame.at # Missed /\ frame.at # at
NotTwice(photos, at) ==
    \A i \in 1..Len(photos) : i + 1 \in 1..Len(photos) =>
        ~(Mistaken(photos[i], at) /\ Mistaken(photos[i + 1], at))

(* No two in a row, and the camera knows of the last. *)
Rare(last, photos, at, aware) ==
    /\ NotTwice(photos, at)
    /\ photos # << >> => /\ ~(Mistaken(last, at) /\ Mistaken(photos[1], at))
                         /\ Mistaken(photos[Len(photos)], at) => aware
    /\ photos = << >> /\ Mistaken(last, at) => aware

Rarely == Rare(cache, pipe, Truth, ghost)

(* The debounce has counted a sighting; the next frame will not err again. *)
Counting ==
    /\ step = "wait" \/ (step \in {"turn", "settle"} /\ aim = "face") => fixes > 0
    /\ prompt /\ step = "confirm" /\ streak > 0 =>
          IF counted THEN cache.at # Missed
          ELSE Visible(view) \/ ~Mistaken(cache, Truth)
    /\ PointsAtSomething

-----------------------------------------------------------------------------
(* Angles.                                                                 *)

LEMMA HalfFacts == Half \in Nat /\ Half > 0 /\ Circle = 2 * Half
  BY FacingAssumption DEF Half

LEMMA Remainders ==
    ASSUME NEW m \in Nat, m > 0
    PROVE  /\ \A a \in 0..(m - 1) : a % m = a
           /\ m % m = 0
           /\ (-1) % m = m - 1
  OBVIOUS

LEMMA LeftOnCircle ==
    ASSUME NEW n \in -Half..(Half - 1)
    PROVE  OnCircle(n + 1) = IF n = Half - 1 THEN -Half ELSE n + 1
<1>1. CASE n = Half - 1
  <2>1. n + 1 + Half = Circle /\ Circle \in Nat /\ Circle > 0
    BY <1>1, HalfFacts
  <2>2. Circle % Circle = 0
    BY <2>1, Remainders
  <2>3. OnCircle(n + 1) = (Circle % Circle) - Half
    BY <2>1, Zenon DEF OnCircle
  <2> QED BY <1>1, <2>2, <2>3, HalfFacts
<1>2. CASE n # Half - 1
  <2>1. n + 1 + Half \in 0..(Circle - 1) /\ Circle \in Nat /\ Circle > 0
    BY <1>2, HalfFacts
  <2>2. (n + 1 + Half) % Circle = n + 1 + Half
    BY <2>1, Remainders
  <2> QED BY <1>2, <2>2, HalfFacts DEF OnCircle
<1> QED BY <1>1, <1>2

LEMMA RightOnCircle ==
    ASSUME NEW n \in -Half..(Half - 1)
    PROVE  OnCircle(n - 1) = IF n = -Half THEN Half - 1 ELSE n - 1
<1>1. CASE n = -Half
  <2>1. n - 1 + Half = -1 /\ Circle \in Nat /\ Circle > 0
    BY <1>1, HalfFacts
  <2>2. (-1) % Circle = Circle - 1
    BY <2>1, Remainders
  <2>3. OnCircle(n - 1) = ((-1) % Circle) - Half
    BY <2>1, Zenon DEF OnCircle
  <2> QED BY <1>1, <2>2, <2>3, HalfFacts
<1>2. CASE n # -Half
  <2>1. n - 1 + Half \in 0..(Circle - 1) /\ Circle \in Nat /\ Circle > 0
    BY <1>2, HalfFacts
  <2>2. (n - 1 + Half) % Circle = n - 1 + Half
    BY <2>1, Remainders
  <2> QED BY <1>2, <2>2, HalfFacts DEF OnCircle
<1> QED BY <1>1, <1>2

LEMMA SizeFacts ==
    ASSUME NEW n \in Int
    PROVE  /\ Size(n) \in Nat
           /\ Visible(n) <=> -Width <= n /\ n <= Width
  BY FacingAssumption DEF Size, Visible

LEMMA TruthType == ASSUME view \in Int PROVE Truth \in Offsets \cup {Missed}
  BY SizeFacts, FacingAssumption DEF Truth, Offsets

-----------------------------------------------------------------------------
(* Frames on their way.                                                    *)

LEMMA AppendFrame ==
    ASSUME NEW q \in Seq(Pictures), NEW f \in Pictures
    PROVE  /\ Append(q, f) \in Seq(Pictures) /\ Len(Append(q, f)) = Len(q) + 1 /\ Len(q) \in Nat
           /\ Append(q, f)[Len(q) + 1] = f
           /\ \A i \in 1..Len(q) : Append(q, f)[i] = q[i]
           /\ \A i \in 1..Len(Append(q, f)) :
                 \/ i \in 1..Len(q) /\ Append(q, f)[i] = q[i]
                 \/ i = Len(q) + 1 /\ Append(q, f)[i] = f
<1> HIDE DEF Pictures
<1>1. /\ Append(q, f) \in Seq(Pictures) /\ Len(Append(q, f)) = Len(q) + 1 /\ Len(q) \in Nat
      /\ \A i \in 1..Len(q) : Append(q, f)[i] = q[i]
      /\ Append(q, f)[Len(q) + 1] = f
  OBVIOUS
<1>2. ASSUME NEW i \in 1..Len(Append(q, f)), i # Len(q) + 1 PROVE i \in 1..Len(q)
  BY <1>1, <1>2
<1> QED BY <1>1, <1>2

LEMMA TailFrames ==
    ASSUME NEW q \in Seq(Pictures), q # << >>
    PROVE  /\ Tail(q) \in Seq(Pictures) /\ Len(Tail(q)) = Len(q) - 1
           /\ Len(q) \in Nat /\ 1 \in 1..Len(q)
           /\ Head(q) = q[1] /\ Head(q) \in Pictures
           /\ \A i \in 1..Len(Tail(q)) : i + 1 \in 1..Len(q) /\ i \in Nat /\ Tail(q)[i] = q[i + 1]
  OBVIOUS

LEMMA AppendStill ==
    ASSUME NEW q \in Seq(Pictures), NEW f \in Pictures, StillLast(q), f.still \/ NoneStill(q)
    PROVE  /\ StillLast(Append(q, f))
           /\ f.still /\ AllStill(q) => AllStill(Append(q, f))
           /\ ~f.still => NoneStill(Append(q, f))
           /\ \A at : StillShow(q, at) /\ (f.still => f.at = at) => StillShow(Append(q, f), at)
<1> DEFINE w == Append(q, f)
<1>1. /\ Len(q) \in Nat
      /\ \A i \in 1..Len(w) : \/ i \in 1..Len(q) /\ w[i] = q[i]
                              \/ i = Len(q) + 1 /\ w[i] = f
  BY AppendFrame
<1> HIDE DEF w
<1>2. StillLast(w)
  <2> SUFFICES ASSUME NEW i \in 1..Len(w), NEW j \in 1..Len(w), i < j, w[i].still
               PROVE  w[j].still
    BY DEF StillLast
  <2>1. i \in 1..Len(q) /\ w[i] = q[i]
    BY <1>1
  <2>2. CASE j \in 1..Len(q) /\ w[j] = q[j]
    BY <2>1, <2>2 DEF StillLast
  <2>3. CASE j = Len(q) + 1 /\ w[j] = f
    BY <2>1, <2>3 DEF NoneStill
  <2> QED BY <1>1, <2>2, <2>3
<1>3. f.still /\ AllStill(q) => AllStill(w)
  BY <1>1 DEF AllStill
<1>4. ~f.still => NoneStill(w)
  BY <1>1 DEF NoneStill
<1>5. \A at : StillShow(q, at) /\ (f.still => f.at = at) => StillShow(w, at)
  BY <1>1 DEF StillShow
<1> QED BY <1>2, <1>3, <1>4, <1>5 DEF w

LEMMA TailStill ==
    ASSUME NEW q \in Seq(Pictures), q # << >>, StillLast(q)
    PROVE  /\ StillLast(Tail(q))
           /\ Head(q).still => AllStill(Tail(q))
           /\ AllStill(q) => Head(q).still
           /\ NoneStill(q) => ~Head(q).still /\ NoneStill(Tail(q))
           /\ \A at : StillShow(q, at) =>
                 StillShow(Tail(q), at) /\ (Head(q).still => Head(q).at = at)
<1> DEFINE w == Tail(q)
<1>1. /\ 1 \in 1..Len(q) /\ Head(q) = q[1]
      /\ \A i \in 1..Len(w) : i + 1 \in 1..Len(q) /\ i \in Nat /\ w[i] = q[i + 1]
      /\ \A i \in 1..Len(w) : 1 < i + 1
  BY TailFrames
<1> HIDE DEF w
<1>2. StillLast(w)
  <2> SUFFICES ASSUME NEW i \in 1..Len(w), NEW j \in 1..Len(w), i < j, w[i].still
               PROVE  w[j].still
    BY DEF StillLast
  <2>1. i + 1 < j + 1
    OBVIOUS
  <2> QED BY <1>1, <2>1 DEF StillLast
<1>3. Head(q).still => AllStill(w)
  BY <1>1 DEF StillLast, AllStill
<1>4. (AllStill(q) => Head(q).still) /\ (NoneStill(q) => ~Head(q).still /\ NoneStill(w))
  BY <1>1 DEF AllStill, NoneStill
<1>5. \A at : StillShow(q, at) => StillShow(w, at) /\ (Head(q).still => Head(q).at = at)
  BY <1>1 DEF StillShow
<1> QED BY <1>2, <1>3, <1>4, <1>5 DEF w

(* What a turn does to the frames. *)
LEMMA TurnStarts ==
    ASSUME FacingTypes, NEW for, NEW by, StartTurn(for, by)
    PROVE  /\ step' = "turn" /\ aim' = for /\ asked' = by /\ turned' = 0
           /\ pipe' \in Seq(Pictures) /\ NoneStill(pipe') /\ Len(pipe') = Len(pipe)
           /\ cache' \in Pictures /\ ~cache'.still /\ cache'.at = cache.at
           /\ UNCHANGED <<prompt, clear, view, ghost>>
<1>1. /\ step' = "turn" /\ aim' = for /\ asked' = by /\ turned' = 0
      /\ UNCHANGED <<prompt, clear, view, ghost>>
  BY DEF StartTurn, worldVars
<1>2. cache' \in Pictures /\ ~cache'.still /\ cache'.at = cache.at
  BY DEF StartTurn, FacingTypes, Pictures
<1>3. \A i \in DOMAIN pipe : /\ [pipe[i] EXCEPT !.still = FALSE] \in Pictures
                             /\ ~[pipe[i] EXCEPT !.still = FALSE].still
  <2>1. \A f \in Pictures : /\ [f EXCEPT !.still = FALSE] \in Pictures
                            /\ ~[f EXCEPT !.still = FALSE].still
    BY DEF Pictures
  <2>2. \A i \in DOMAIN pipe : pipe[i] \in Pictures
    BY DEF FacingTypes
  <2> QED BY <2>1, <2>2
<1>4. pipe' \in Seq(Pictures) /\ Len(pipe') = Len(pipe)
      /\ \A i \in 1..Len(pipe) : ~pipe'[i].still
  <2>1. pipe' = [i \in 1..Len(pipe) |-> [pipe[i] EXCEPT !.still = FALSE]]
        /\ Len(pipe) \in Nat /\ DOMAIN pipe = 1..Len(pipe)
    BY DEF StartTurn, FacingTypes
  <2>2. pipe' \in Seq(Pictures)
    BY <1>3, <2>1, IsASeq
  <2>3. Len(pipe') = Len(pipe)
    BY <2>1, <2>2
  <2> QED BY <1>3, <2>1, <2>2, <2>3
<1> QED BY <1>1, <1>2, <1>4 DEF NoneStill

-----------------------------------------------------------------------------
(* Kinds of steps.                                                         *)

(* The behaviour's thread goes on without a turn. *)
Elsewhere == UNCHANGED <<prompt, clear, view, ghost, pipe, cache>>

LEMMA TypesInit == FacingInit => FacingTypes
<1> SUFFICES ASSUME FacingInit PROVE FacingTypes
  OBVIOUS
<1>1. PICK at \in Offsets \cup {Missed} : cache = Frame(at, prompt)
  BY DEF FacingInit
<1>2. cache \in Pictures
  BY <1>1 DEF FacingInit, Frame, Pictures
<1>3. pipe \in Seq(Pictures)
  BY DEF FacingInit
<1> QED BY <1>2, <1>3 DEF FacingInit, FacingTypes, Steps

LEMMA CaptureFacts ==
    ASSUME FacingTypes, Capture
    PROVE  \E at \in {Truth} \cup {a \in {Missed, 0} : ~clear} :
              /\ Frame(at, step # "turn") \in Pictures
              /\ pipe' = Append(pipe, Frame(at, step # "turn"))
              /\ ghost' = (at # Missed /\ at # Truth) /\ (ghost => ~ghost')
              /\ UNCHANGED <<prompt, clear, view, cache, news, counted, used, step, aim, asked,
                             turned, swept, streak, fixes, verdict>>
<1>1. PICK at \in {Truth} \cup {a \in {Missed, 0} : ~clear} :
         /\ ghost' = (at # Missed /\ at # Truth) /\ (ghost => ~ghost')
         /\ pipe' = Append(pipe, Frame(at, step # "turn"))
  BY DEF Capture
<1>2. at \in Offsets \cup {Missed}
  <2>1. 0 \in Offsets
    BY FacingAssumption DEF Offsets
  <2>2. view \in Int
    BY HalfFacts DEF FacingTypes
  <2> QED BY <2>1, <2>2, TruthType
<1>3. Frame(at, step # "turn") \in Pictures
  <2>1. (step # "turn") \in BOOLEAN
    OBVIOUS
  <2> QED BY <1>2, <2>1 DEF Frame, Pictures
<1> QED BY <1>1, <1>3 DEF Capture, turnVars

LEMMA TurnFacts ==
    ASSUME FacingTypes, Turn
    PROVE  /\ step = "turn" /\ turned < Size(asked) + Over /\ turned' = turned + 1
           /\ asked > 0 => view' = IF view = Half - 1 THEN -Half ELSE view + 1
           /\ view' \in -Half..(Half - 1)
           /\ UNCHANGED <<prompt, clear, ghost, pipe, cache, news, counted, used, step, aim,
                          asked, swept, streak, fixes, verdict>>
<1>1. /\ step = "turn" /\ turned < Size(asked) + Over /\ turned' = turned + 1
      /\ UNCHANGED <<prompt, clear, ghost, pipe, cache, news, counted, used, step, aim,
                     asked, swept, streak, fixes, verdict>>
  BY DEF Turn, eyeVars
<1>2. view \in -Half..(Half - 1)
  BY DEF FacingTypes
<1>3. CASE asked > 0
  <2>1. view' = OnCircle(view + 1)
    BY <1>3 DEF Turn
  <2>2. view' = IF view = Half - 1 THEN -Half ELSE view + 1
    BY <1>2, <2>1, LeftOnCircle
  <2> QED BY <1>1, <1>2, <1>3, <2>2, HalfFacts
<1>4. CASE ~(asked > 0)
  <2>1. view' = OnCircle(view + (-1))
    BY <1>4 DEF Turn
  <2>2. view + (-1) = view - 1
    BY <1>2, HalfFacts
  <2>3. view' = IF view = -Half THEN Half - 1 ELSE view - 1
    BY <1>2, <2>1, <2>2, RightOnCircle
  <2> QED BY <1>1, <1>2, <1>4, <2>3, HalfFacts
<1> QED BY <1>1, <1>3, <1>4

LEMMA OnDetectionsFacts ==
    ASSUME FacingTypes, OnDetections
    PROVE  /\ pipe # << >> /\ cache' = Head(pipe) /\ pipe' = Tail(pipe)
           /\ counted' = FALSE
           /\ prompt /\ step = "confirm" => counted
           /\ cache' \in Pictures /\ pipe' \in Seq(Pictures)
           /\ UNCHANGED <<prompt, clear, view, ghost, step, aim, asked, turned, swept, streak,
                          fixes, verdict>>
<1>1. /\ pipe # << >> /\ cache' = Head(pipe) /\ pipe' = Tail(pipe)
      /\ counted' = FALSE
      /\ prompt /\ step = "confirm" => counted
      /\ UNCHANGED <<prompt, clear, view, ghost, step, aim, asked, turned, swept, streak,
                     fixes, verdict>>
  BY DEF OnDetections, worldVars, turnVars
<1>2. pipe \in Seq(Pictures)
  BY DEF FacingTypes
<1> QED BY <1>1, <1>2, TailFrames

(* The rest of the steps. *)
AtTarget(act) == step \in {"face", "wait"} /\ act
Centring == \E at \in Seen \ {Missed} : Centred(at)
Correcting == \E at \in Seen \ {Missed} : Correct(at)

Standing ==
    \/ SweepTurned \/ CorrectionTurned \/ Settle
    \/ LooksOn \/ Confirmed \/ NotFound
    \/ AtTarget(Centring) \/ AtTarget(GiveUp) \/ WaitMisses \/ Verdict

LEMMA NextKinds ==
    ASSUME FacingNext
    PROVE  \/ Capture \/ OnDetections \/ Turn \/ NextHeading \/ AtTarget(Correcting)
           \/ Elsewhere /\ Standing
<1> USE DEF Elsewhere, worldVars, eyeVars
<1>1. Centring => Elsewhere
  BY DEF Centring, Centred
<1>2. GiveUp => Elsewhere
  BY DEF GiveUp
<1>3. SweepTurned \/ CorrectionTurned \/ Settle => Elsewhere
  BY DEF SweepTurned, CorrectionTurned, Settle
<1>4. LooksOn \/ Confirmed \/ NotFound => Elsewhere
  BY DEF LooksOn, Confirmed, NotFound
<1>5. WaitMisses => Elsewhere
  BY DEF WaitMisses
<1>6. Verdict => Elsewhere
  BY DEF Verdict
<1>7. Look \/ WaitSees => AtTarget(Centring) \/ AtTarget(Correcting) \/ AtTarget(GiveUp)
  BY DEF Look, WaitSees, AtTarget, Centring, Correcting
<1> HIDE DEF Elsewhere
<1>8. AtTarget(Centring) => Centring
  BY DEF AtTarget
<1>9. AtTarget(GiveUp) => GiveUp
  BY DEF AtTarget
<1> QED BY <1>1, <1>2, <1>3, <1>4, <1>5, <1>6, <1>7, <1>8, <1>9 DEF FacingNext, Standing

LEMMA TypesStep == ASSUME FacingTypes, FacingNext PROVE FacingTypes'
<1>1. CASE Capture
  <2>1. PICK at : /\ Frame(at, step # "turn") \in Pictures
                  /\ pipe' = Append(pipe, Frame(at, step # "turn"))
    BY <1>1, CaptureFacts
  <2>2. pipe' \in Seq(Pictures)
    BY <2>1, AppendFrame DEF FacingTypes
  <2>3. UNCHANGED <<prompt, clear, view, cache, step, aim, asked, turned, swept, streak, fixes,
                    verdict>>
    BY <1>1 DEF Capture, turnVars
  <2> QED BY <2>2, <2>3 DEF FacingTypes
<1>2. CASE OnDetections
  BY <1>2, OnDetectionsFacts DEF FacingTypes
<1>3. CASE Turn
  <2>1. /\ turned' = turned + 1 /\ view' \in -Half..(Half - 1)
        /\ UNCHANGED <<prompt, clear, pipe, cache, step, aim, asked, swept, streak, fixes, verdict>>
    BY <1>3, TurnFacts
  <2> QED BY <2>1 DEF FacingTypes
<1>4. CASE NextHeading
  <2>1. /\ StartTurn("sweep", Step) /\ streak' = 0 /\ UNCHANGED <<swept, fixes, verdict>>
        /\ step = "confirm"
    BY <1>4 DEF NextHeading, NotHere, DebounceTicks
  <2>2. Step \in Int
    BY FacingAssumption
  <2> QED BY <2>1, <2>2, TurnStarts DEF FacingTypes, Steps
<1>5. CASE AtTarget(Correcting)
  <2>1. PICK at \in Seen \ {Missed} : Correct(at)
    BY <1>5 DEF AtTarget, Correcting
  <2>2. at \in Int
    BY FacingAssumption DEF Seen, FacingTypes, Pictures, Offsets
  <2>3. PICK by \in 1..Width : StartTurn("face", IF at > 0 THEN -by ELSE by)
    BY <2>1 DEF Correct
  <2>4. (IF at > 0 THEN -by ELSE by) \in Int
    BY <2>2, SizeFacts
  <2>5. /\ fixes' = fixes + 1 /\ UNCHANGED <<swept, streak, verdict>>
        /\ step \in {"face", "wait"}
    BY <1>5, <2>1 DEF Correct, AtTarget
  <2> DEFINE togoNow == IF at > 0 THEN -by ELSE by
  <2> HIDE DEF togoNow
  <2>6. StartTurn("face", togoNow) /\ togoNow \in Int
    BY <2>3, <2>4 DEF togoNow
  <2> QED BY <2>5, <2>6, TurnStarts DEF FacingTypes, Steps
<1>6. CASE Elsewhere /\ Standing
  <2>1. UNCHANGED <<prompt, clear, view, pipe, cache>>
    BY <1>6 DEF Elsewhere
  <2>2. UNCHANGED <<aim, asked, turned>>
    BY <1>6, Zenon DEF Standing, SweepTurned, CorrectionTurned, Settle, LooksOn, Confirmed,
            NotFound, AtTarget, Centring, Centred, GiveUp, WaitMisses, Verdict, turnVars
  <2>3. step' \in Steps
    <3>1. step \in Steps
      BY DEF FacingTypes
    <3> QED BY <1>6, <3>1 DEF Standing, SweepTurned, CorrectionTurned, Settle, LooksOn,
            Confirmed, NotFound, AtTarget, Centring, Centred, GiveUp, WaitMisses, Verdict, Steps
  <2>4. swept' \in Nat
    BY <1>6 DEF FacingTypes, Standing, SweepTurned, CorrectionTurned, Settle, LooksOn,
            Confirmed, NotFound, AtTarget, Centring, Centred, GiveUp, WaitMisses, Verdict
  <2>5. streak' \in Nat
    BY <1>6, FacingAssumption DEF FacingTypes, Standing, SweepTurned, CorrectionTurned, Settle,
            LooksOn, Confirmed, NotFound, AtTarget, Centring, Centred, GiveUp, WaitMisses, Verdict
  <2>6. fixes' = fixes
    BY <1>6 DEF Standing, SweepTurned, CorrectionTurned, Settle, LooksOn,
            Confirmed, NotFound, AtTarget, Centring, Centred, GiveUp, WaitMisses, Verdict
  <2>7. step' = "done" <=> verdict' # "searching"
    <3>1. step = "done" <=> verdict # "searching"
      BY DEF FacingTypes
    <3> QED BY <1>6, <3>1, Zenon DEF Standing, SweepTurned, CorrectionTurned, Settle, LooksOn,
            Confirmed, NotFound, NotHere, DebounceTicks, AtTarget, Centring, Centred, GiveUp,
            WaitMisses, Verdict
  <2> QED BY <2>1, <2>2, <2>3, <2>4, <2>5, <2>6, <2>7 DEF FacingTypes
<1> QED BY <1>1, <1>2, <1>3, <1>4, <1>5, <1>6, NextKinds

-----------------------------------------------------------------------------
(* Frames of where the robot stands.                                       *)

LEMMA StillsInit == FacingInit => Stills /\ Honest
<1> SUFFICES ASSUME FacingInit PROVE Stills /\ Honest
  OBVIOUS
<1>1. PICK at \in Offsets \cup {Missed} :
         (prompt => at = IF Visible(view) THEN view ELSE Missed) /\ cache = Frame(at, prompt)
  BY DEF FacingInit
<1>2. pipe = << >> /\ step = "confirm"
  BY DEF FacingInit
<1>3. Len(pipe) = 0
  BY <1>2
<1>4. cache.still = prompt /\ cache.at = at
  BY <1>1 DEF Frame
<1>5. cache.still => cache.at = Truth
  BY <1>1, <1>4 DEF Truth
<1>6. StillLast(pipe) /\ AllStill(pipe) /\ StillShow(pipe, Truth)
  BY <1>3 DEF StillLast, AllStill, StillShow
<1>7. prompt => cache.still
  BY <1>4
<1> QED BY <1>2, <1>5, <1>6, <1>7 DEF Stills, Honest

LEMMA TruthStays == ASSUME UNCHANGED view PROVE Truth' = Truth
  BY DEF Truth, Visible

(* Where the behaviour goes, but for a turn. *)
LEMMA StandingSteps ==
    ASSUME Standing
    PROVE  /\ UNCHANGED <<aim, asked, turned, fixes>> /\ step' # "turn"
           /\ step' \in {"confirm", "face", "wait", "verdict"} =>
                 \/ step \in {"confirm", "face", "wait", "verdict"}
                 \/ prompt => cache.still
<1> USE DEF turnVars
<1>1. CASE SweepTurned
  BY <1>1 DEF SweepTurned
<1>2. CASE CorrectionTurned
  BY <1>2 DEF CorrectionTurned
<1>3. CASE Settle
  BY <1>3 DEF Settle
<1>4. CASE LooksOn
  BY <1>4 DEF LooksOn, DebounceTicks
<1>5. CASE Confirmed
  BY <1>5 DEF Confirmed, DebounceTicks
<1>6. CASE NotFound
  BY <1>6 DEF NotFound
<1>7. CASE AtTarget(Centring)
  BY <1>7 DEF AtTarget, Centring, Centred
<1>8. CASE AtTarget(GiveUp)
  BY <1>8 DEF AtTarget, GiveUp
<1>9. CASE WaitMisses
  BY <1>9 DEF WaitMisses
<1>10. CASE Verdict
  BY <1>10 DEF Verdict
<1> QED BY <1>1, <1>2, <1>3, <1>4, <1>5, <1>6, <1>7, <1>8, <1>9, <1>10 DEF Standing

LEMMA TurnStartsStill ==
    ASSUME FacingTypes, Stills, Honest, NEW for, NEW by, StartTurn(for, by)
    PROVE  Stills' /\ Honest'
<1>1. step' = "turn" /\ NoneStill(pipe') /\ ~cache'.still
  BY TurnStarts
<1>2. StillLast(pipe') /\ StillShow(pipe', Truth')
  BY <1>1 DEF StillLast, StillShow, NoneStill
<1> QED BY <1>1, <1>2 DEF Stills, Honest

LEMMA StillsStep ==
    ASSUME FacingTypes, Stills, Honest, FacingNext PROVE Stills' /\ Honest'
<1>0. pipe \in Seq(Pictures)
  BY DEF FacingTypes
<1>1. CASE Capture
  <2>1. PICK at \in {Truth} \cup {a \in {Missed, 0} : ~clear} :
           /\ Frame(at, step # "turn") \in Pictures
           /\ pipe' = Append(pipe, Frame(at, step # "turn"))
           /\ UNCHANGED <<prompt, clear, view, cache, step>>
    BY <1>1, CaptureFacts
  <2> DEFINE f == Frame(at, step # "turn")
  <2>2. f.at = at /\ (f.still <=> step # "turn")
    BY DEF Frame
  <2>3. clear => at = Truth
    BY <2>1
  <2>4. f \in Pictures /\ pipe' = Append(pipe, f)
    BY <2>1
  <2> HIDE DEF f
  <2>5. f.still \/ NoneStill(pipe)
    BY <2>2 DEF Stills
  <2>6. /\ StillLast(pipe')
        /\ f.still /\ AllStill(pipe) => AllStill(pipe')
        /\ ~f.still => NoneStill(pipe')
        /\ StillShow(pipe, Truth) /\ (f.still => f.at = Truth) => StillShow(pipe', Truth)
    BY <1>0, <2>4, <2>5, AppendStill DEF Stills
  <2>7. Truth' = Truth
    BY <2>1, TruthStays
  <2>8. Honest'
    BY <2>1, <2>2, <2>3, <2>6, <2>7 DEF Honest
  <2> QED BY <2>1, <2>2, <2>6, <2>8 DEF Stills
<1>2. CASE OnDetections
  <2>1. /\ pipe # << >> /\ cache' = Head(pipe) /\ pipe' = Tail(pipe)
        /\ UNCHANGED <<prompt, clear, view, step>>
    BY <1>2, OnDetectionsFacts
  <2>2. /\ StillLast(pipe')
        /\ cache'.still => AllStill(pipe')
        /\ AllStill(pipe) => cache'.still
        /\ NoneStill(pipe) => ~cache'.still /\ NoneStill(pipe')
        /\ StillShow(pipe, Truth) => StillShow(pipe', Truth)
                                       /\ (cache'.still => cache'.at = Truth)
    BY <1>0, <2>1, TailStill DEF Stills
  <2>3. Truth' = Truth
    BY <2>1, TruthStays
  <2>4. Honest'
    BY <2>1, <2>2, <2>3 DEF Honest
  <2> QED BY <2>1, <2>2, <2>4 DEF Stills
<1>3. CASE Turn
  <2>1. step = "turn" /\ UNCHANGED <<prompt, clear, pipe, cache, step>>
    BY <1>3, TurnFacts
  <2>2. ~cache.still /\ NoneStill(pipe)
    BY <2>1 DEF Stills
  <2>3. Honest'
    BY <2>1, <2>2 DEF Honest, StillShow, NoneStill
  <2> QED BY <2>1, <2>2, <2>3 DEF Stills
<1>4. CASE NextHeading
  BY <1>4, TurnStartsStill DEF NextHeading
<1>5. CASE AtTarget(Correcting)
  <2>1. PICK at \in Seen \ {Missed} : Correct(at)
    BY <1>5 DEF AtTarget, Correcting
  <2>2. PICK by \in 1..Width : StartTurn("face", IF at > 0 THEN -by ELSE by)
    BY <2>1 DEF Correct
  <2> QED BY <2>2, TurnStartsStill
<1>6. CASE Elsewhere /\ Standing
  <2>1. UNCHANGED <<prompt, clear, view, pipe, cache>>
    BY <1>6 DEF Elsewhere
  <2>2. Honest'
    BY <2>1, TruthStays DEF Honest
  <2>3. /\ step' # "turn"
        /\ step' \in {"confirm", "face", "wait", "verdict"} =>
              \/ step \in {"confirm", "face", "wait", "verdict"}
              \/ prompt => cache.still
    BY <1>6, StandingSteps
  <2> QED BY <2>1, <2>2, <2>3 DEF Stills
<1> QED BY <1>1, <1>2, <1>3, <1>4, <1>5, <1>6, NextKinds

(* Before it turns, a robot that pauses for long enough sees the target    *)
(* where it is, or it is not in view.                                      *)
LEMMA SeesTruth ==
    ASSUME FacingTypes, Stills, Honest, prompt, clear,
           step \in {"confirm", "face", "wait", "verdict"}, NEW at \in Seen
    PROVE  at = Truth
<1>1. cache.still /\ cache.at = Truth
  BY DEF Stills, Honest
<1>2. Seen = {cache.at}
  BY DEF Seen
<1> QED BY <1>1, <1>2

LEMMA MissedIsNowhere ==
    ASSUME FacingTypes
    PROVE  /\ view \in Int /\ view # Missed
           /\ Truth = Missed <=> ~Visible(view)
           /\ Truth # Missed => Truth = view
<1>1. view \in Int /\ view # Missed
  BY HalfFacts, FacingAssumption DEF FacingTypes
<1> QED BY <1>1 DEF Truth

(* A loop that accepts what it sees says that the robot faces the target. *)
LEMMA SaysStep ==
    ASSUME FacingTypes, Stills, Honest, SaysItFaces, FacingNext PROVE SaysItFaces'
<1> SUFFICES ASSUME prompt', clear', verdict' = "facing" PROVE Faces(view')
  BY DEF SaysItFaces
<1> DEFINE As == UNCHANGED <<prompt, clear, view, verdict>>
<1>1. CASE As
  BY <1>1 DEF SaysItFaces, Faces
<1>2. CASE Turn
  <2>1. step = "turn" /\ UNCHANGED <<prompt, clear, verdict>>
    BY <1>2, TurnFacts
  <2> QED BY <2>1 DEF FacingTypes
<1>3. ASSUME step \in {"face", "wait"}, Centring PROVE Faces(view')
  <2>1. PICK at \in Seen \ {Missed} : Centred(at)
    BY <1>3 DEF Centring
  <2>2. Faces(at) /\ UNCHANGED <<prompt, clear, view>>
    BY <2>1 DEF Centred, worldVars
  <2>3. at = Truth /\ at # Missed
    BY <1>3, <2>2, SeesTruth
  <2>4. at = view
    BY <2>3, MissedIsNowhere
  <2> QED BY <2>2, <2>4
<1>4. CASE Verdict
  <2>1. PICK at \in Seen :
           verdict' = IF at # Missed /\ Size(at) <= Deadzone THEN "facing" ELSE "found"
    BY <1>4 DEF Verdict
  <2>2. step = "verdict" /\ UNCHANGED <<prompt, clear, view>>
    BY <1>4 DEF Verdict, worldVars
  <2>3. at # Missed /\ Size(at) <= Deadzone
    BY <2>1
  <2>4. at = view
    BY <2>2, <2>3, SeesTruth, MissedIsNowhere
  <2> QED BY <2>2, <2>3, <2>4 DEF Faces
<1>5. CASE Elsewhere /\ Standing
  <2>1. UNCHANGED <<prompt, clear, view>>
    BY <1>5 DEF Elsewhere
  <2>2. SweepTurned \/ NotFound => verdict' \in {verdict, "error", "not_found"}
    BY DEF SweepTurned, NotFound
  <2>3. CorrectionTurned \/ Settle \/ LooksOn \/ Confirmed \/ WaitMisses => verdict' = verdict
    BY DEF CorrectionTurned, Settle, LooksOn, Confirmed, WaitMisses
  <2>4. AtTarget(GiveUp) => verdict' = verdict
    BY DEF AtTarget, GiveUp
  <2>5. AtTarget(Centring) => step \in {"face", "wait"} /\ Centring
    BY DEF AtTarget
  <2>6. \/ verdict' \in {verdict, "error", "not_found"}
        \/ step \in {"face", "wait"} /\ Centring
        \/ Verdict
    BY <1>5, <2>2, <2>3, <2>4, <2>5 DEF Standing
  <2> QED BY <1>1, <1>3, <1>4, <2>1, <2>6
<1>6. Capture => As
  BY CaptureFacts
<1>7. OnDetections => As
  BY OnDetectionsFacts
<1>8. NextHeading => As
  BY DEF NextHeading, StartTurn, worldVars
<1>9. AtTarget(Correcting) => As
  BY DEF AtTarget, Correcting, Correct, StartTurn, worldVars
<1> HIDE DEF As
<1> QED BY <1>1, <1>2, <1>5, <1>6, <1>7, <1>8, <1>9, NextKinds

-----------------------------------------------------------------------------
(* The sweep.                                                              *)

LEMMA PassedFacts ==
    ASSUME FacingTypes, ~Visible(view) PROVE Passed(view) \in 1..(Circle - 1)
<1>1. view \in -Half..(Half - 1) /\ view \in Int
  BY MissedIsNowhere DEF FacingTypes
<1>2. ~(-Width <= view /\ view <= Width)
  BY <1>1, SizeFacts
<1> QED BY <1>1, <1>2, HalfFacts, FacingAssumption DEF Passed

LEMMA AheadInit == FacingInit => Ahead
<1> SUFFICES ASSUME FacingInit PROVE Ahead
  OBVIOUS
<1>1. FacingTypes
  BY TypesInit
<1>2. step = "confirm" /\ aim = "sweep" /\ swept = 0 /\ verdict = "searching"
  BY DEF FacingInit
<1>3. ~Visible(view) => Passed(view) > swept
  BY <1>1, <1>2, PassedFacts, HalfFacts
<1> QED BY <1>2, <1>3 DEF Ahead

(* Without the target in the picture, the sweep's next step begins where   *)
(* the target is not in view.                                              *)
LEMMA NotHereIsAhead ==
    ASSUME FacingTypes, Stills, Honest, Ahead, step = "confirm", NotHere, prompt, clear
    PROVE  ~Visible(view) /\ aim = "sweep" /\ (ViewsOverlap => Passed(view) > swept)
<1>1. Missed \in Seen
  BY DEF NotHere, DebounceTicks
<1>2. ~Visible(view)
  BY <1>1, SeesTruth, MissedIsNowhere
<1> QED BY <1>2 DEF Ahead

LEMMA AheadTurns ==
    ASSUME FacingTypes, Ahead, Turn, prompt, clear, ViewsOverlap, aim = "sweep"
    PROVE  /\ ~Visible(view') => Passed(view') > swept + turned'
           /\ Visible(view') => view' + Width < turned'
<1>1. /\ view \in -Half..(Half - 1) /\ view \in Int /\ swept \in Nat /\ turned \in Nat
      /\ Width \in Nat /\ Half \in Nat /\ Half > 0 /\ Circle = 2 * Half
      /\ Step \in Nat /\ Step > 0 /\ Over \in Nat /\ Step + Over <= 2 * Width
  BY MissedIsNowhere, HalfFacts, FacingAssumption DEF FacingTypes, ViewsOverlap
<1>2. step = "turn" /\ asked > 0 /\ turned < Step + Over
  <2>1. step = "turn" /\ asked = Step /\ turned < Size(asked) + Over
    BY TurnFacts DEF Ahead
  <2> QED BY <1>1, <2>1 DEF Size
<1>3. view' = (IF view = Half - 1 THEN -Half ELSE view + 1) /\ turned' = turned + 1
  BY <1>2, TurnFacts
<1>4. view' \in Int
  BY <1>1, <1>3
<1>5. /\ Visible(view) <=> -Width <= view /\ view <= Width
      /\ Visible(view') <=> -Width <= view' /\ view' <= Width
  BY <1>1, <1>4, SizeFacts
<1>6. CASE Visible(view)
  <2>1. view + Width < turned
    BY <1>2, <1>6 DEF Ahead
  <2>2. view < Width
    BY <1>1, <1>2, <2>1
  <2>3. CASE view # Half - 1
    BY <1>1, <1>3, <1>5, <1>6, <2>1, <2>2, <2>3
  <2>4. CASE view = Half - 1
    BY <1>1, <1>3, <1>5, <1>6, <2>1, <2>2, <2>4
  <2> QED BY <2>3, <2>4
<1>7. CASE ~Visible(view)
  <2>1. Passed(view) > swept + turned
    BY <1>2, <1>7 DEF Ahead
  <2>2. ASSUME ~Visible(view') PROVE Passed(view') > swept + turned'
    <3>1. Passed(view') = Passed(view) + 1
      <4>1. CASE view > Width
        BY <1>1, <1>3, <1>5, <2>2, <4>1 DEF Passed
      <4>2. CASE view < -Width
        BY <1>1, <1>3, <1>5, <2>2, <4>2 DEF Passed
      <4> QED BY <1>1, <1>5, <1>7, <4>1, <4>2
    <3>2. Passed(view) \in Int
      BY <1>1 DEF Passed
    <3> QED BY <1>1, <1>3, <2>1, <3>1, <3>2
  <2>3. ASSUME Visible(view') PROVE view' + Width < turned'
    <3>1. view < -Width
      <4>1. CASE view > Width /\ view # Half - 1
        BY <1>1, <1>3, <1>5, <2>3, <4>1
      <4>2. CASE view > Width /\ view = Half - 1
        BY <1>1, <1>3, <1>5, <2>3, <4>2
      <4> QED BY <1>1, <1>5, <1>7, <4>1, <4>2
    <3>2. view' = -Width
      BY <1>1, <1>3, <1>5, <2>3, <3>1
    <3> QED BY <1>1, <1>3, <3>2
  <2> QED BY <2>2, <2>3
<1> QED BY <1>6, <1>7

LEMMA AheadStep ==
    ASSUME FacingTypes, Stills, Honest, Ahead, FacingNext PROVE Ahead'
<1>1. CASE Capture
  <2>1. UNCHANGED <<prompt, clear, view, step, aim, asked, turned, swept, verdict>>
    BY <1>1, CaptureFacts
  <2> QED BY <2>1 DEF Ahead, Visible, Size, Passed
<1>2. CASE OnDetections
  <2>1. UNCHANGED <<prompt, clear, view, step, aim, asked, turned, swept, verdict>>
    BY <1>2, OnDetectionsFacts
  <2> QED BY <2>1 DEF Ahead, Visible, Size, Passed
<1>3. CASE Turn
  <2>1. /\ step = "turn" /\ step' = "turn"
        /\ UNCHANGED <<prompt, clear, aim, asked, swept, verdict>>
    BY <1>3, TurnFacts
  <2>2. aim' = "sweep" => asked' = Step
    BY <2>1 DEF Ahead
  <2>3. prompt' /\ clear' /\ ViewsOverlap /\ aim' = "sweep" =>
          /\ ~Visible(view') => Passed(view') > swept' + turned'
          /\ Visible(view') => view' + Width < turned'
    BY <1>3, <2>1, AheadTurns
  <2>4. prompt' /\ clear' /\ ViewsOverlap => verdict' # "not_found"
    BY <2>1 DEF Ahead
  <2> QED BY <2>1, <2>2, <2>3, <2>4 DEF Ahead, Visible, Passed
<1>4. CASE NextHeading
  <2>1. NotHere /\ StartTurn("sweep", Step) /\ UNCHANGED <<swept, verdict>> /\ step = "confirm"
    BY <1>4 DEF NextHeading, NotHere, DebounceTicks
  <2>2. /\ step' = "turn" /\ aim' = "sweep" /\ asked' = Step /\ turned' = 0
        /\ UNCHANGED <<prompt, clear, view>>
    BY <2>1 DEF StartTurn, worldVars
  <2>3. prompt /\ clear => ~Visible(view) /\ (ViewsOverlap => Passed(view) > swept)
    BY <2>1, NotHereIsAhead
  <2>4. Step \in Nat /\ swept \in Nat
    BY FacingAssumption DEF FacingTypes
  <2>5. ~Visible(view) => ~Visible(view')
    BY <2>2
  <2>6. Passed(view') = Passed(view)
    BY <2>2
  <2> QED BY <2>1, <2>2, <2>3, <2>4, <2>5, <2>6 DEF Ahead
<1>5. CASE AtTarget(Correcting)
  <2>1. PICK at \in Seen \ {Missed} : Correct(at)
    BY <1>5 DEF AtTarget, Correcting
  <2>2. step' = "turn" /\ aim' = "face" /\ UNCHANGED <<prompt, clear, verdict>>
    BY <2>1 DEF Correct, StartTurn, worldVars
  <2> QED BY <2>2 DEF Ahead
<1>6. CASE Elsewhere /\ Standing
  <2>1. UNCHANGED <<prompt, clear, view, aim, asked, turned>> /\ step' # "turn"
    BY <1>6, StandingSteps DEF Elsewhere
  <2>2. /\ step' = "confirm" => aim' = "sweep"
        /\ prompt /\ clear /\ ViewsOverlap => verdict' # "not_found"
        /\ prompt /\ clear /\ ViewsOverlap /\ aim = "sweep" /\ step' \in {"confirm", "settle"}
              /\ ~Visible(view) => Passed(view) > swept'
    <3>1. CASE SweepTurned
      BY <3>1 DEF SweepTurned, Ahead
    <3>2. CASE CorrectionTurned
      BY <3>2 DEF CorrectionTurned, Ahead
    <3>3. CASE Settle
      BY <2>1, <3>3 DEF Settle, Ahead
    <3>4. CASE LooksOn \/ Confirmed
      BY <2>1, <3>4 DEF LooksOn, Confirmed, DebounceTicks, Ahead
    <3>5. CASE NotFound
      <4>1. NotHere /\ swept >= Circle /\ step' = "done" /\ step = "confirm"
        BY <3>5 DEF NotFound, NotHere, DebounceTicks
      <4>2. ~(prompt /\ clear /\ ViewsOverlap)
        <5>1. SUFFICES ASSUME prompt, clear, ViewsOverlap PROVE FALSE
          OBVIOUS
        <5>2. ~Visible(view) /\ Passed(view) > swept
          BY <4>1, <5>1, NotHereIsAhead
        <5> QED BY <4>1, <5>2, PassedFacts, HalfFacts DEF FacingTypes
      <4> QED BY <4>1, <4>2
    <3>6. CASE AtTarget(Centring)
      BY <3>6 DEF AtTarget, Centring, Centred
    <3>7. CASE AtTarget(GiveUp)
      BY <3>7 DEF AtTarget, GiveUp, Ahead
    <3>8. CASE WaitMisses
      BY <3>8 DEF WaitMisses, Ahead
    <3>9. CASE Verdict
      BY <3>9 DEF Verdict
    <3> QED BY <1>6, <3>1, <3>2, <3>3, <3>4, <3>5, <3>6, <3>7, <3>8, <3>9 DEF Standing
  <2>3. Passed(view') = Passed(view) /\ (~Visible(view') => ~Visible(view))
    BY <2>1
  <2> QED BY <2>1, <2>2, <2>3 DEF Ahead
<1> QED BY <1>1, <1>2, <1>3, <1>4, <1>5, <1>6, NextKinds

-----------------------------------------------------------------------------
(* The debounce.                                                           *)

LEMMA NoneIsRare ==
    ASSUME NEW q \in Seq(Pictures), NoneStill(q), NEW c, ~c.still, NEW at, NEW aware
    PROVE  Rare(c, q, at, aware)
<1>1. ~Mistaken(c, at) /\ \A i \in 1..Len(q) : ~Mistaken(q[i], at)
  BY DEF Mistaken, NoneStill
<1>2. q # << >> => 1 \in 1..Len(q) /\ Len(q) \in 1..Len(q)
  OBVIOUS
<1> QED BY <1>1, <1>2 DEF Rare, NotTwice

LEMMA AppendRare ==
    ASSUME NEW q \in Seq(Pictures), NEW f \in Pictures, NEW c, NEW at, NEW aware, NEW knows,
           Rare(c, q, at, aware), Mistaken(f, at) => knows /\ ~aware
    PROVE  Rare(c, Append(q, f), at, knows)
<1> DEFINE w == Append(q, f)
<1>1. /\ w \in Seq(Pictures) /\ Len(w) = Len(q) + 1 /\ Len(q) \in Nat
      /\ \A i \in 1..Len(q) : w[i] = q[i]
      /\ w[Len(q) + 1] = f
  BY AppendFrame
<1>2. q = << >> <=> Len(q) = 0
  OBVIOUS
<1> HIDE DEF w
<1>3. w # << >> /\ (Mistaken(w[Len(w)], at) => knows)
  BY <1>1
<1>4. ASSUME NEW i \in 1..Len(w), i + 1 \in 1..Len(w)
      PROVE  ~(Mistaken(w[i], at) /\ Mistaken(w[i + 1], at))
  <2>1. i \in 1..Len(q) /\ w[i] = q[i]
    BY <1>1, <1>4
  <2>2. CASE i + 1 \in 1..Len(q)
    BY <1>1, <2>1, <2>2 DEF Rare, NotTwice
  <2>3. CASE i = Len(q)
    <3>1. q # << >>
      BY <1>1, <1>2, <2>1
    <3> QED BY <1>1, <2>1, <2>3, <3>1 DEF Rare
  <2> QED BY <1>1, <2>1, <2>2, <2>3
<1>5. ~(Mistaken(c, at) /\ Mistaken(w[1], at))
  <2>1. CASE q = << >>
    <3>1. w[1] = f
      BY <1>1, <1>2, <2>1
    <3> QED BY <2>1, <3>1 DEF Rare
  <2>2. CASE q # << >>
    <3>1. w[1] = q[1]
      BY <1>1, <1>2, <2>2
    <3> QED BY <2>2, <3>1 DEF Rare
  <2> QED BY <2>1, <2>2
<1> QED BY <1>3, <1>4, <1>5 DEF Rare, NotTwice, w

LEMMA TailRare ==
    ASSUME NEW q \in Seq(Pictures), q # << >>, NEW c, NEW at, NEW aware, Rare(c, q, at, aware)
    PROVE  Rare(Head(q), Tail(q), at, aware)
<1> DEFINE w == Tail(q)
<1>1. /\ w \in Seq(Pictures) /\ Len(w) = Len(q) - 1 /\ Len(q) \in Nat /\ 1 \in 1..Len(q)
      /\ Head(q) = q[1]
      /\ \A i \in 1..Len(w) : i + 1 \in 1..Len(q) /\ i \in Nat /\ w[i] = q[i + 1]
  BY TailFrames
<1> HIDE DEF w
<1>2. w = << >> <=> Len(w) = 0
  <2>1. w \in Seq(Pictures)
    BY <1>1
  <2> HIDE DEF Pictures
  <2> QED BY <2>1
<1>3. \A i \in 1..Len(w) : i + 1 \in 1..Len(w) =>
         ~(Mistaken(w[i], at) /\ Mistaken(w[i + 1], at))
  <2> SUFFICES ASSUME NEW i \in 1..Len(w), i + 1 \in 1..Len(w)
               PROVE  ~(Mistaken(w[i], at) /\ Mistaken(w[i + 1], at))
    OBVIOUS
  <2>1. /\ w[i] = q[i + 1] /\ i + 1 \in 1..Len(q)
        /\ w[i + 1] = q[(i + 1) + 1] /\ (i + 1) + 1 \in 1..Len(q)
    BY <1>1
  <2> QED BY <2>1 DEF Rare, NotTwice
<1>4. ASSUME w # << >> PROVE ~(Mistaken(Head(q), at) /\ Mistaken(w[1], at))
  <2>1. 1 \in 1..Len(w)
    BY <1>1, <1>2, <1>4
  <2>2. w[1] = q[1 + 1] /\ 1 + 1 \in 1..Len(q)
    BY <1>1, <2>1
  <2> QED BY <1>1, <2>2 DEF Rare, NotTwice
<1>5. ASSUME w # << >>, Mistaken(w[Len(w)], at) PROVE aware
  <2>1. Len(w) \in 1..Len(w)
    BY <1>1, <1>2, <1>5
  <2>2. w[Len(w)] = q[Len(q)]
    BY <1>1, <2>1
  <2> QED BY <1>5, <2>2 DEF Rare
<1>6. ASSUME w = << >>, Mistaken(Head(q), at) PROVE aware
  <2>1. Len(q) = 1
    BY <1>1, <1>2, <1>6
  <2> QED BY <1>1, <1>6, <2>1 DEF Rare
<1> QED BY <1>3, <1>4, <1>5, <1>6 DEF Rare, NotTwice, w

LEMMA RarelyInit == FacingInit => Rarely
<1> SUFFICES ASSUME FacingInit PROVE Rarely
  OBVIOUS
<1>1. Stills /\ pipe = << >>
  BY StillsInit DEF FacingInit
<1>2. PICK at \in Offsets \cup {Missed} :
         (prompt => at = IF Visible(view) THEN view ELSE Missed) /\ cache = Frame(at, prompt)
  BY DEF FacingInit
<1>3. cache.still = prompt /\ cache.at = at
  BY <1>2 DEF Frame
<1>4. ~Mistaken(cache, Truth)
  BY <1>2, <1>3 DEF Mistaken, Truth
<1>5. Len(pipe) = 0
  BY <1>1
<1> QED BY <1>1, <1>4, <1>5 DEF Rarely, Rare, NotTwice

LEMMA RarelyStep ==
    ASSUME FacingTypes, Stills, Rarely, FacingNext, FacingTypes', Stills' PROVE Rarely'
<1>0. pipe \in Seq(Pictures) /\ pipe' \in Seq(Pictures)
  BY DEF FacingTypes
<1>1. CASE Capture
  <2>1. PICK at \in {Truth} \cup {a \in {Missed, 0} : ~clear} :
           /\ Frame(at, step # "turn") \in Pictures
           /\ pipe' = Append(pipe, Frame(at, step # "turn"))
           /\ ghost' = (at # Missed /\ at # Truth) /\ (ghost => ~ghost')
           /\ UNCHANGED <<view, cache, step>>
    BY <1>1, CaptureFacts
  <2> DEFINE f == Frame(at, step # "turn")
  <2>2. f.at = at
    BY DEF Frame
  <2>3. f \in Pictures /\ pipe' = Append(pipe, f)
    BY <2>1
  <2> HIDE DEF f
  <2>4. Mistaken(f, Truth) => ghost' /\ ~ghost
    BY <2>1, <2>2 DEF Mistaken
  <2>5. Rare(cache, pipe', Truth, ghost')
    BY <1>0, <2>3, <2>4, AppendRare DEF Rarely
  <2>6. Truth' = Truth
    BY <2>1, TruthStays
  <2> QED BY <2>1, <2>5, <2>6 DEF Rarely
<1>2. CASE OnDetections
  <2>1. /\ pipe # << >> /\ cache' = Head(pipe) /\ pipe' = Tail(pipe)
        /\ UNCHANGED <<view, ghost>>
    BY <1>2, OnDetectionsFacts
  <2>2. Rare(cache', pipe', Truth, ghost)
    BY <1>0, <2>1, TailRare DEF Rarely
  <2>3. Truth' = Truth
    BY <2>1, TruthStays
  <2> QED BY <2>1, <2>2, <2>3 DEF Rarely
<1>3. CASE step' = "turn"
  <2>1. ~cache'.still /\ NoneStill(pipe')
    BY <1>3 DEF Stills
  <2>2. Rare(cache', pipe', Truth', ghost')
    BY <1>0, <2>1, NoneIsRare
  <2> QED BY <2>2 DEF Rarely
<1>4. CASE Elsewhere /\ Standing
  <2>1. UNCHANGED <<view, ghost, pipe, cache>>
    BY <1>4 DEF Elsewhere
  <2>2. Truth' = Truth
    BY <2>1, TruthStays
  <2> QED BY <2>1, <2>2 DEF Rarely
<1>5. Turn \/ NextHeading \/ AtTarget(Correcting) => step' = "turn"
  BY DEF Turn, NextHeading, AtTarget, Correcting, Correct, StartTurn
<1> QED BY <1>1, <1>2, <1>3, <1>4, <1>5, NextKinds

LEMMA CountingInit == FacingInit => Counting
  BY DEF FacingInit, Counting, PointsAtSomething

(* A sighting the debounce counts is one in the cached frame. *)
LEMMA TicksOnCache ==
    ASSUME FacingTypes, Stills, prompt, NEW at \in Offsets, DebounceTicks(at)
    PROVE  step = "confirm" /\ ~counted /\ counted' = TRUE /\ cache.still /\ cache.at # Missed
<1>1. cache.at = at /\ step = "confirm" /\ ~counted /\ counted' = TRUE
  BY DEF DebounceTicks, Seen
<1>2. at # Missed
  BY FacingAssumption DEF Offsets
<1> QED BY <1>1, <1>2 DEF Stills

LEMMA CountingStep ==
    ASSUME Needed >= 2, FacingTypes, Stills, Rarely, Counting, FacingNext PROVE Counting'
<1>1. CASE Capture
  <2>1. UNCHANGED <<prompt, view, cache, counted, step, aim, streak, fixes>>
    BY <1>1, CaptureFacts
  <2>2. Truth' = Truth
    BY <2>1, TruthStays
  <2> QED BY <2>1, <2>2 DEF Counting, PointsAtSomething, Visible, Size
<1>2. CASE OnDetections
  <2>1. /\ pipe # << >> /\ cache' = Head(pipe) /\ counted' = FALSE
        /\ prompt /\ step = "confirm" => counted
        /\ UNCHANGED <<prompt, view, step, aim, streak, fixes>>
    BY <1>2, OnDetectionsFacts
  <2>2. Truth' = Truth
    BY <2>1, TruthStays
  <2>3. ASSUME prompt, step = "confirm", streak > 0, ~Visible(view)
        PROVE  ~Mistaken(cache', Truth)
    <3>1. cache.at # Missed /\ cache.still
      BY <2>1, <2>3 DEF Counting, Stills
    <3>2. Mistaken(cache, Truth)
      BY <2>3, <3>1 DEF Mistaken, Truth
    <3>3. Head(pipe) = pipe[1]
      BY <2>1, TailFrames DEF FacingTypes
    <3> QED BY <2>1, <3>2, <3>3 DEF Rarely, Rare
  <2>4. Visible(view) => Visible(view)'
    BY <2>1
  <2> QED BY <2>1, <2>2, <2>3, <2>4 DEF Counting, PointsAtSomething
<1>3. CASE Turn
  <2>1. step = "turn" /\ UNCHANGED <<step, aim, fixes>>
    BY <1>3, TurnFacts
  <2> QED BY <2>1 DEF Counting, PointsAtSomething
<1>4. CASE NextHeading
  <2>1. step' = "turn" /\ aim' = "sweep"
    BY <1>4 DEF NextHeading, StartTurn
  <2> QED BY <2>1 DEF Counting, PointsAtSomething
<1>5. CASE AtTarget(Correcting)
  <2>1. step' = "turn" /\ fixes' = fixes + 1
    BY <1>5 DEF AtTarget, Correcting, Correct, StartTurn
  <2>2. fixes' > 0
    BY <2>1 DEF FacingTypes
  <2> QED BY <2>1, <2>2 DEF Counting, PointsAtSomething
<1>6. CASE Elsewhere /\ Standing
  <2>1. UNCHANGED <<prompt, view, cache, aim, fixes>>
    BY <1>6, StandingSteps DEF Elsewhere
  <2>2. CASE SweepTurned
    BY <2>1, <2>2 DEF SweepTurned, Counting, PointsAtSomething
  <2>3. CASE CorrectionTurned
    BY <2>1, <2>3 DEF CorrectionTurned, Counting, PointsAtSomething
  <2>4. CASE Settle
    <3>1. step = "settle" /\ step' = (IF aim = "sweep" THEN "confirm" ELSE "wait") /\ streak' = 0
      BY <2>4 DEF Settle
    <3>2. step' = "wait" => fixes' > 0
      BY <2>1, <3>1 DEF Counting, FacingTypes
    <3> QED BY <2>1, <3>1, <3>2 DEF Counting, PointsAtSomething
  <2>5. CASE LooksOn
    <3>1. PICK at \in Offsets : DebounceTicks(at)
      BY <2>5 DEF LooksOn
    <3>2. step' = step /\ step = "confirm" /\ counted' = TRUE
      BY <2>5, <3>1 DEF LooksOn, DebounceTicks
    <3>3. prompt' => cache'.at # Missed
      BY <2>1, <3>1, TicksOnCache
    <3> QED BY <3>2, <3>3 DEF Counting, PointsAtSomething
  <2>6. CASE Confirmed
    <3>1. PICK at \in Offsets : DebounceTicks(at)
      BY <2>6 DEF Confirmed
    <3>2. step' = "face" /\ streak > 0
      BY <2>6 DEF Confirmed, FacingTypes
    <3>3. ASSUME prompt PROVE Visible(view)
      <4>1. step = "confirm" /\ ~counted /\ cache.still /\ cache.at # Missed
        BY <3>1, <3>3, TicksOnCache
      <4>2. Visible(view) \/ ~Mistaken(cache, Truth)
        BY <3>2, <3>3, <4>1 DEF Counting
      <4> QED BY <4>1, <4>2 DEF Mistaken, Truth
    <3>4. Visible(view) => Visible(view)'
      BY <2>1
    <3> QED BY <2>1, <3>2, <3>3, <3>4 DEF Counting, PointsAtSomething
  <2>7. CASE NotFound
    BY <2>7 DEF NotFound, Counting, PointsAtSomething
  <2>8. CASE AtTarget(Centring)
    BY <2>8 DEF AtTarget, Centring, Centred, Counting, PointsAtSomething
  <2>9. CASE AtTarget(GiveUp)
    BY <2>9 DEF AtTarget, GiveUp, Counting, PointsAtSomething
  <2>10. CASE WaitMisses
    <3>1. step = "wait" /\ step' = "face"
      BY <2>10 DEF WaitMisses
    <3>2. fixes' > 0
      BY <2>1, <3>1 DEF Counting
    <3> QED BY <3>1, <3>2 DEF Counting, PointsAtSomething
  <2>11. CASE Verdict
    BY <2>11 DEF Verdict, Counting, PointsAtSomething
  <2> QED BY <1>6, <2>2, <2>3, <2>4, <2>5, <2>6, <2>7, <2>8, <2>9, <2>10, <2>11 DEF Standing
<1> QED BY <1>1, <1>2, <1>3, <1>4, <1>5, <1>6, NextKinds

-----------------------------------------------------------------------------
(* What the frames and the sweep promise, throughout a search.             *)
Search == FacingTypes /\ Stills /\ Honest /\ SaysItFaces /\ Ahead /\ Rarely

LEMMA SearchStep == ASSUME Search, [FacingNext]_facingVars PROVE Search'
<1>1. CASE FacingNext
  <2>1. FacingTypes' /\ Stills' /\ Honest'
    BY <1>1, TypesStep, StillsStep DEF Search
  <2> QED BY <1>1, <2>1, SaysStep, AheadStep, RarelyStep DEF Search
<1>2. CASE UNCHANGED facingVars
  <2>1. FacingTypes' /\ Stills'
    BY <1>2 DEF Search, FacingTypes, Stills, facingVars, worldVars, eyeVars, turnVars
  <2>2. UNCHANGED view
    BY <1>2 DEF facingVars, worldVars
  <2>3. Truth' = Truth /\ (Visible(view)' <=> Visible(view)) /\ Passed(view)' = Passed(view)
    BY <2>2, TruthStays
  <2>4. Honest' /\ Rarely'
    BY <1>2, <2>3 DEF Search, Honest, Rarely, facingVars, worldVars, eyeVars
  <2>5. SaysItFaces' /\ Ahead'
    BY <1>2, <2>3 DEF Search, SaysItFaces, Faces, Ahead, facingVars, worldVars, turnVars
  <2> QED BY <2>1, <2>4, <2>5 DEF Search
<1> QED BY <1>1, <1>2

LEMMA SearchAlways == FacingSpec => []Search
<1>1. FacingInit => Search
  BY TypesInit, StillsInit, AheadInit, RarelyInit DEF Search, SaysItFaces, FacingInit
<1> QED BY <1>1, SearchStep, PTL DEF FacingSpec

(* A search of a robot whose pauses suffice, with a detector that does not *)
(* err, cannot go round without its target: _find_loop, where its views    *)
(* overlap, whatever part of each turn the robot makes and however far,    *)
(* within that, it overshoots.                                             *)
THEOREM SweepMissesNothing == FacingSpec => []SweepSeesAll
<1>1. Search => SweepSeesAll
  BY DEF Search, Ahead, SweepSeesAll
<1> QED BY SearchAlways, <1>1, PTL

(* A search that tells the user that the robot faces the target read it    *)
(* off a frame captured where the robot stands: _find_loop, however far a  *)
(* turn went past what _face_target asked.                                 *)
THEOREM FacesWhatItSays == FacingSpec => []SaysItFaces
<1>1. Search => SaysItFaces
  BY DEF Search
<1> QED BY SearchAlways, <1>1, PTL

(* What _confirm_target confirms is there, though the detector may err in  *)
(* every other frame: FIND_CONFIRM_FRAMES is two, and one would not do.    *)
THEOREM ConfirmedIsThere == ASSUME Needed >= 2 PROVE FacingSpec => []PointsAtSomething
<1>1. ASSUME Search, Counting, [FacingNext]_facingVars PROVE Counting'
  <2>1. CASE FacingNext
    BY <1>1, <2>1, CountingStep DEF Search
  <2>2. CASE UNCHANGED facingVars
    <3>1. UNCHANGED <<prompt, view, cache, counted, step, aim, streak, fixes>>
      BY <2>2 DEF facingVars, worldVars, eyeVars, turnVars
    <3>2. Truth' = Truth /\ (Visible(view)' <=> Visible(view))
      BY <3>1, TruthStays
    <3> QED BY <1>1, <3>1, <3>2 DEF Counting, PointsAtSomething
  <2> QED BY <1>1, <2>1, <2>2
<1>2. Counting => PointsAtSomething
  BY DEF Counting
<1> QED BY SearchAlways, CountingInit, <1>1, <1>2, PTL DEF FacingSpec
=============================================================================
