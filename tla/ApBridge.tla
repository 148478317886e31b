------------------------------- MODULE ApBridge -------------------------------
(***************************************************************************)
(* The laptop bridge between the dog in access-point mode and the ROS      *)
(* graph in the cloud: its Foxglove client, which subscribes to the two    *)
(* command topics when the server announces them, and the way of a command *)
(* from a frame on that socket to the data channel of the dog.             *)
(*                                                                         *)
(* The socket is one ordered stream each way.  The server announces a      *)
(* channel while the ROS graph has its topic, withdraws it when it has     *)
(* not, and gives a topic that comes back a new channel.                   *)
(***************************************************************************)
EXTENDS Integers, Sequences

CONSTANTS
    MaxChannels,  \* bound on the channels the server announces
    MaxCommands   \* bound on the commands the cloud publishes

ASSUME ApAssumption == MaxChannels \in Nat /\ MaxCommands \in Nat

Topic == {"/cmd_vel_out", "/webrtc_req"}
Nothing == 0

VARIABLES
    link,      \* run(): "dog" (connect_dog), "bridge", "running", "over"
    channel,   \* the server's channel of a topic, or Nothing
    channels,  \* how many it has announced
    down,      \* frames to the bridge that it has not read
    upward,    \* subscriptions the server has not seen
    known,     \* _server_channels
    pending,   \* the topics in _pending_subs
    served,    \* the channels the server has a subscription for
    dog,       \* the data channel: "none", "open", "closed"
    made,      \* commands published; a command has its number
    got        \* what reached the dog

serverVars == <<channel, channels, served, made>>
apVars == <<link, serverVars, down, upward, known, pending, dog, got>>

ApInit ==
    /\ link = "dog"
    /\ channel = [t \in Topic |-> Nothing] /\ channels = 0
    /\ down = << >> /\ upward = << >>
    /\ known = [t \in Topic |-> Nothing]
    /\ pending = {}
    /\ served = {}
    /\ dog = "none"
    /\ made = 0 /\ got = << >>

-----------------------------------------------------------------------------
(* The bridge.                                                             *)

(* connect_dog: a connect that fails ends the program. *)
ConnectDog ==
    /\ link = "dog"
    /\ \/ link' = "bridge" /\ dog' = "open"
       \/ link' = "over" /\ UNCHANGED dog
    /\ UNCHANGED <<serverVars, down, upward, known, pending, got>>

(* connect_bridge: advertise, and want() for both topics, before the first *)
(* frame is read.  The server tells a new client what channels it has.     *)
ConnectBridge ==
    /\ link = "bridge"
    /\ link' = "running"
    /\ pending' = Topic
    /\ down' = (IF channel["/cmd_vel_out"] = Nothing THEN << >>
                ELSE << [op |-> "advertise", topic |-> "/cmd_vel_out",
                         id |-> channel["/cmd_vel_out"]] >>)
               \o (IF channel["/webrtc_req"] = Nothing THEN << >>
                   ELSE << [op |-> "advertise", topic |-> "/webrtc_req",
                            id |-> channel["/webrtc_req"]] >>)
    /\ UNCHANGED <<serverVars, upward, known, dog, got>>

(* _do_subscribe: once, and the topic is no longer wanted. *)
Subscribe(t, id) ==
    IF t \in pending
    THEN upward' = Append(upward, id) /\ pending' = pending \ {t}
    ELSE UNCHANGED <<upward, pending>>

(* _on_cmd_vel and _on_webrtc_req send in the callback itself, nothing     *)
(* being queued on the way; a channel that is not open swallows it.        *)
ToDog(frame) ==
    got' = IF dog = "open" /\ ~frame.idle THEN Append(got, frame.command) ELSE got

(* run(): one frame. *)
ReadFrame(frame) ==
    /\ down' = Tail(down)
    /\ CASE frame.op = "advertise" ->
              /\ known' = [known EXCEPT ![frame.topic] = frame.id]
              /\ Subscribe(frame.topic, frame.id)
              /\ UNCHANGED got
         [] frame.op = "unadvertise" ->
              /\ known' = [t \in Topic |-> IF known[t] = frame.id THEN Nothing ELSE known[t]]
              /\ UNCHANGED <<upward, pending, got>>
         [] frame.op = "data" ->
              /\ ToDog(frame)
              /\ UNCHANGED <<known, upward, pending>>

(* Mutant: a command is sent at the next turn of the loop, which may be    *)
(* after the one that is next in the socket.                               *)
DispatchOvertaking ==
    \/ ReadFrame(Head(down))
    \/ /\ Len(down) > 1 /\ down[1].op = "data" /\ down[2].op = "data"
       /\ down' = <<down[1]>> \o SubSeq(down, 3, Len(down))
       /\ ToDog(down[2])
       /\ UNCHANGED <<known, upward, pending>>

Dispatch == ReadFrame(Head(down))

Run ==
    /\ link = "running" /\ down # << >>
    /\ Dispatch
    /\ UNCHANGED <<link, serverVars, dog>>

(* The socket or the user ends run(); shutdown() closes both links. *)
Shutdown ==
    /\ link = "running"
    /\ link' = "over"
    /\ dog' = "closed"
    /\ UNCHANGED <<serverVars, down, upward, known, pending, got>>

-----------------------------------------------------------------------------
(* The server and the dog.                                                 *)

Tell(frame) == down' = IF link = "running" THEN Append(down, frame) ELSE down

Advertise(t) ==
    /\ channel[t] = Nothing /\ channels < MaxChannels
    /\ channels' = channels + 1
    /\ channel' = [channel EXCEPT ![t] = channels + 1]
    /\ Tell([op |-> "advertise", topic |-> t, id |-> channels + 1])
    /\ UNCHANGED <<link, served, made, upward, known, pending, dog, got>>

Unadvertise(t) ==
    /\ channel[t] # Nothing
    /\ channel' = [channel EXCEPT ![t] = Nothing]
    /\ served' = served \ {channel[t]}
    /\ Tell([op |-> "unadvertise", id |-> channel[t]])
    /\ UNCHANGED <<link, channels, made, upward, known, pending, dog, got>>

(* A subscription to a channel that is gone is answered with an error. *)
Accept ==
    /\ upward # << >>
    /\ served' = IF \E t \in Topic : channel[t] = Head(upward)
                 THEN served \cup {Head(upward)} ELSE served
    /\ upward' = Tail(upward)
    /\ UNCHANGED <<link, channel, channels, made, down, known, pending, dog, got>>

(* A command published in the cloud; an idle one is an all-zero Twist, which *)
(* _on_cmd_vel drops, or a request whose parameter is no JSON.             *)
Publish(t) ==
    /\ made < MaxCommands /\ channel[t] \in served
    /\ made' = made + 1
    /\ \E idle \in BOOLEAN : Tell([op |-> "data", command |-> made + 1, idle |-> idle])
    /\ UNCHANGED <<link, channel, channels, served, upward, known, pending, dog, got>>

DogLeaves ==
    /\ dog = "open"
    /\ dog' = "closed"
    /\ UNCHANGED <<link, serverVars, down, upward, known, pending, got>>

ApNext ==
    \/ ConnectDog \/ ConnectBridge \/ Run \/ Shutdown
    \/ \E t \in Topic : Advertise(t) \/ Unadvertise(t) \/ Publish(t)
    \/ Accept \/ DogLeaves

ApTypeOK ==
    /\ link \in {"dog", "bridge", "running", "over"}
    /\ channel \in [Topic -> 0..MaxChannels] /\ channels \in 0..MaxChannels
    /\ known \in [Topic -> 0..MaxChannels]
    /\ pending \subseteq Topic /\ served \subseteq 1..MaxChannels
    /\ dog \in {"none", "open", "closed"}
    /\ made \in 0..MaxCommands /\ \A i \in DOMAIN got : got[i] \in 1..made

(* Twists and requests reach the dog in the order of the socket, each at   *)
(* most once, over two subscriptions and a data channel that may close:    *)
(* a StopMove is never followed by a Twist that was published before it.   *)
InOrder == \A i, j \in DOMAIN got : i < j => got[i] < got[j]

=============================================================================
