# Verification of the agentic Go2 control stack

TLA+ models of the parts of this repository whose correctness depends on the order
in which threads, callbacks and messages happen, or on arithmetic a test would hardly
reach; model-checked with TLC and, where it matters most, proved with TLAPS for every
value of the constants. Paths below are relative to the repository.

## The system

A voice agent (a language model behind a speech session) calls *tools*; the tools
call a *robot client*, which publishes ROS messages over a Foxglove websocket to a
container in the cloud; there the *driver* turns them into WebRTC messages for one
or more robots. Detections, odometry and camera frames come back the same way. When
the robot is in access-point mode a *laptop bridge* replaces the driver's radio link.
The agent runs on a desk (`main.py`) or hosted (`agentcore_server.py` and a thin client).

```
 thin client ──websocket──► hosted session ─┐
 microphone, keys ────────► voice session ──┴─► tools ──► Go2ROS2Client ──► foxglove_bridge
                                 ▲                        │ tracker, greeter,   │ ROS
                                 └── notifications ◄──────┘ search (threads)    ▼
            robot ◄─WebRTC─ control loop per robot ◄─queue/loop─ go2_driver_node
            robot ◄─WebRTC─ go2_ap_bridge (laptop) ◄──websocket── foxglove_bridge
            camera ─► kvs_producer_node        lidar ─► lidar_to_pointcloud ─► aggregator
```

### Components, their state and what makes them correct

| Component (code) | State | Operations | Interacts by | Correct when |
|---|---|---|---|---|
| Behaviours (`voice_agent/go2_ros2_client.py`) | three stop Events, thread fields, `_find_state` | start/stop of tracker, greeter, search; one-shot motions; three loops | fields shared by tool threads and daemon threads; velocities | whoever turns stops the robot; the tracker yields; a search reaches a verdict |
| Search and facing (same file) | detection cache with capture stamps, sweep, streak | look, debounce, turn, correct | detector callbacks, odometry | the circle is covered; verdicts rest on fresh frames; what it says it faces it faces |
| Greeter latch (same file) | armed flag, streak, last-seen clock, pending greetings | poll, greet, re-arm, drain | detector callbacks, status call | one greeting per visit |
| Ballistic gate (`voice_agent/tools.py`) | one slot, a lock | request, confirm, perform | tool threads | a request is used once, for what it named, in time |
| Foxglove client (`FoxgloveClient`) | channels, subscriptions, reader, flags | connect, subscribe, publish | websocket and an event loop's thread | a topic is heard once asked for, or is asked for again |
| Driver commands (`robot_control_service.py`, `webrtc_adapter.py`, `go2_driver_node.py`, `main.py`) | one request queue, scheduled sends | Twist and request callbacks, control loops | ROS thread to asyncio; WebRTC | StopMove is the last word; in order, once, through outages |
| Reconnect (`go2_connection.py`, the same files) | token cache, back-off, `_cloud_blocked` | login, attempts, watch, exit | cloud service; one loop per robot | one login per token, no dial before the last peer was told to close, every robot comes back |
| Notifications (`notifications.py`) | a bounded queue | notify, poll | behaviours produce, the session consumes | oldest dropped, order kept, everything kept is spoken |
| Voice session and microphone (`session.py`, `main*.py`) | chunk queue, switch, tasks | toggle, audio callback, lines, teardown | audio thread, event loop | the end of what was said is heard; the robot lies down |
| Hosted session (`agentcore_server.py`, `client_registry.py`) | shared client, frame queue, two tasks | open, read, race, close | websockets, threads | one client; freshest frames; stand-down at the end |
| Thin client (`agentcore_client.py`) | speaker buffer, microphone, pumps | play, interrupt, exit | websocket, audio threads | an interruption silences the answer |
| Access-point bridge (`scripts/go2_ap_bridge.py`) | pending subscriptions, both links, point cloud | subscribe, dispatch, accumulate, publish | hotspot, cloud | commands in order; a stable view |
| CDR (`go2_ap_bridge.py`, `go2_ros2_client.py`) | none | encode, decode | bytes | a reader finds each field where its writer put it |
| Lidar nodes (`lidar_processor*`) | map, save flag, window | callbacks, save, filter | best-effort topic, file | nearest kept, saved unless changed, only recent clouds shown |
| Video producer (`kvs_producer_node.py`) | newest image, segment | sample, encode, upload | three threads | no frame lost or repeated between segments |
| Simulated dog (`sim_dog.py`, `go2_sim_client.py`) | command, gesture, label, pose, Event | play, walk, stop, tick | physics thread and tools | the label is the pose |
| Scene memory, detector, decoders, publishers, direct client, deployment, launch files | little or none | one callback each | | see *Not modelled* |

Which behaviours are hard: daemon threads and any number of tool threads share Events
and one robot without a lock; joins have timeouts shorter than some steps of the threads
they wait for; a websocket closes for good while loops run; a zero Twist is not a stop;
Twists and requests take different paths; loops of several robots share a queue, a flag
and a token; confirmations race their deadline; audio threads and an event loop share
buffers; frames are computed on before a turn and arrive after it. `PROJECT.json` lists
each such hazard at its line with the properties that cover it.

## The modules

| Module | Models | Composed in |
|---|---|---|
| `Behaviours` | threads, calls and stop protocol of the robot client | `MCBehaviours` |
| `Facing`, `GreeterLatch` | how a search looks, whom the greeter greets | `MCParts` |
| `DangerousGate` | the gate; implements `Confirmations`, the abstract token discipline | `MCDangerousGate`, `MCTools` |
| `Subscriptions` | the Foxglove client: reader, channels, requests, flags | `MCTools` |
| `SimDog` | the simulated dog | `MCTools` |
| `DriverCommands`, `Reconnect` | the driver: what passes through, and how links are got and kept | `MCDriver` |
| `Microphone` | the switched microphone of both programs | `VoiceSession`, `ThinClient` |
| `Notifications` | the queue of events and its reader | `VoiceSession` |
| `VoiceSession` | a local session, over the two before | `MCSessions` |
| `HostedSession`, `ThinClient` | the two ends of the hosted agent | `MCSessions` |
| `ApBridge`, `CloudView`, `Cdr` | the laptop bridge: commands, cloud, bytes | `MCParts` |
| `LidarMap`, `VideoProducer` | the lidar nodes, the video producer | `MCParts` |
| `Behaviours_proofs`, `DangerousGate_proofs`, `Cdr_proofs` | theorems about the module of that name | |
| `Driver_proofs` | theorems about `DriverCommands` and `Reconnect` | |
| `Tools_proofs`, `Hosted_proofs`, `Voice_proofs`, `Parts_proofs` | theorems about the modules of these parts: `MCTools`, the hosted and the local sessions of `MCSessions`, `MCParts` | |

`VoiceSession` and `ThinClient` are true compositions: microphone, notifications and the
session's own steps interact through shared variables. `MCDriver`, `MCSessions`, `MCTools`
and `MCParts` put models side by side that share no state: a variable (`part`) chosen in the
initial state says which one a run is about, the others rest.

A definition whose comment begins *Mutant:* is a plausible bug next to the definition it
would replace; it is no part of the model. Each property has one that TLC finds.

### How state and actions correspond to the code

**Behaviours.** `stop`, `wanted`, `ref`, `findState` are the client's fields; `kind`, `pc`,
`turns`, `twists`, `seen` the local state of threads; `op`, `at`, `phase`, `awaited` say how
far each tool call is; `setpoint` is whose non-zero Twist the robot executes, `up` whether
the websocket is open. `Signal` and `Join` are the halves of the stop operations, `Spawn`
the tail of the starts; `TurnCheck`, `Twist`, `TurnEnds`, `Settle` are `turn_degrees`, shared
by sweep, facing and tool; `FaceTurn`, `FaceEnds` are `_face_target`. Assumed: while the
websocket is up what is published arrives in order (shown for the driver by
`DriverCommands`, for the laptop by `ApBridge`); a join times out only on a step of `Slow`;
the robot drops a setpoint nobody refreshes at any time or never. `Slow` are the steps that can
outlast a join of 1, 2 or 3 s: every publish (each waits up to 2 s for the event loop, 530-538),
the tracker's among them, a turn's wait for `/odom` (5 s, 1307), standing still, the wave, the
approach and what the vision model is asked.

**Facing.** Arrays arrive in the order of capture and late; of their stamps only three
comparisons matter (`counted`, `news`, `still`). The target stands still on a circle; a turn ends
anywhere from where it began to `Over` past what was `asked`: a robot that falls short, that
coasts after StopMove (1419-1421, 1520-1528), or turns to its deadline (1566-1572). A correction
may be short of the target or beyond it, as the field of view is an estimate; whether frames come
promptly and without ghosts are two facts (`prompt`, `clear`) under which the properties are
stated. The learned field of view and the speed profile are real-valued and left out.

**GreeterLatch.** A unit of time is long enough for one poll. The detector may miss a visitor
in single arrays or stop; a greeting takes time or raises.

**DangerousGate, Confirmations.** `claimed` and `name` are the locals of a confirming call,
which reads the slot, the name and the clock in separate steps because the lock covers only
the swap. `Token` maps a request to new, open, taken, performed or lapsed.

**Subscriptions.** `table` is `_server_channels`, `asked` `_subscriptions`, `sending` the
coroutines the loop has not run, `wire` and `inbox` the socket, `asking` the frames of the
threads inside `_grab_live_frame`, `_ensure_detection_subscribed` and alike. The server gives
a topic that returns a new channel. Check, id, callback and channel are one step: there is no
call between them at which CPython lets another thread run.

**SimDog.** `queued`, `twist`, `inTime` are the command tools write; `playing`, `steps`,
`label`, `legs`, `walking`, `phase` the physics thread's; others may run between taking a gesture,
playing it and reading the twist, and tools ask for gestures and walks whenever they like. A pose
is its name. `looked` is a history: whether the loop's last look found the twist on, and whether
a gesture ended since.

**DriverCommands.** `queue` is `webrtc_msgs`, `ready` what `run_coroutine_threadsafe` has
scheduled, `conn` which connection object is current, `got` what reached each robot.

**Reconnect.** One event loop: a step goes from one await to the next. The library's login is
in its constructor and blocks the loop. What the cloud answers and when a robot drops its
channel is up to the environment; `Expiry` says how the cloud answers an expired token. A
disconnect may raise, which the code swallows while it drops the reference: `peer` counts the
connections nobody closed, `left` those among them that were told to close and raised.

**Microphone, Notifications, VoiceSession, HostedSession, ThinClient.** Steps are what runs
between two awaits, two lock operations of a queue, or two operations of an audio thread on
a shared buffer. Ctrl-C may come twice, links may be lost, daemon threads go on to the end.
`session.py` switches its microphone on and then schedules the emptying of the queue, two steps
(`SwitchOn`, `ScheduleDrain`, `toggling` between them) as the audio thread may hand over a chunk
in between; the thin client empties it in the same callback (`SwitchOnThin`).

**ApBridge, CloudView, Cdr.** Both links as ordered streams; one dimension stands for three in
the cloud; a message's layout is a sequence of runs of aligned items.

**LidarMap, VideoProducer.** A callback of a node that spins one thread is a step; the topic
between the lidar nodes keeps the last few messages; the locks of the producer delimit steps.
`ago` is a history: how many clouds the aggregator has stored since one with the point.

## Runs

| Run | Question | Bounds |
|---|---|---|
| `behaviours` | every call that moves the robot, in any order, against loops that outlive their join and a lost websocket: `HolderIsMoving`, `SearchingHasSearcher`, `NothingLeftMoving`, `TrackerYields` | 3 threads, 1 caller, sweep of 1, 1 Twist a turn |
| `behaviours_live` | `SearchTerminates`, `StoppedGreeterEnds` | 2 threads, sweep of 2, 1 correction |
| `tools` | gate: `Undirected`, `AcceptedInTime`, `TokenSpec`; client: `HeardUnlessWithdrawn`; dog: `LabelIsPose` | 2 threads each; 3 requests, window 1 of 2 ticks; 2 channels, 2 requests, 2 frames; gestures of 3 steps |
| `driver` | `NoLateTwist`, `RequestsInOrder`, `OnceOnly`, `OutlivesOutage`; `OneLoginPerToken`, `OnePeer`, `LeftAlone`, `ComesBack` | 2 robots; 3 commands, 2 faults; 2 attempts, 2 troubles |
| `sessions` | local: `FreshUtterance`, `EndIsHeard`, `ToldInOrder`, `Announced`, `StandsDown`; server: `OneClient`, `FreshestKept`, `StandsDownAfterHangUp`, `SessionEnds`; client: `BargeIn` | 3 presses, 2 chunks, queue of 1; 2 events a behaviour, queue of 2; 1 line; 2 sessions, 2 frames, queue of 1; 2 answers, 2 chunks |
| `parts` | bridge: `InOrder`, `FieldsWhereWritten`, `StableView`; lidar: `KeepsTheNearest`, `SavedUnlessChanged`, `ViewIsRecent`; video: `GapFree`; greeter: `OnePerVisit`; search: `SweepSeesAll`, `PointsAtSomething`, `SaysItFaces` | see the comment of `MCParts.cfg` |
| `stop_tracking`, `error_means_stall`, `gate_spelling`, `stale_correction`, `cloud_flag`, `last_session` | statements of docstrings and comments that the code does not keep | the smallest instance that shows it |

Why the bounds are enough. Two threads are what a stop call and its thread, or a loop and
its successor, need; three let one that outlived its join run next to two others. Two tool
threads and three requests let one request replace another while a third call holds a claimed
one. Three commands let two be reordered around a third; two faults are an outage and a failed
reconnect. Queues of one or two are full after one or two puts, and everything the code does
differently when a queue is full happens. Two channels let a topic be withdrawn and return
while a request for the first is under way. Strings of up to seven letters meet every residue
of the alignment of eight. A circle of twelve of which five are in view, searched by steps of two
that may go two too far, has seams that just touch, a last step that goes round and targets behind
the robot. A window of two clouds over a topic of two forgets. The proofs remove the bounds where
they apply. In `sessions` a local session uses the microphone, the keyboard or the notifications
(`OneInput`), a terminal client its microphone or its speaker (`OneDevice`), and one of two hosted
sessions sends frames (`OneSender`): they share nothing but the session or the robot client, so
their steps commute. In `driver` the cloud refuses an expired
token with a status the driver takes for a refusal (`Expiry`); see the observations for
the other case.

Deadlock is not checked where programs end or bounds run out (`CHECK_DEADLOCK FALSE`); the
behaviours' runs check it.

Fairness. `Behaviours`: weak fairness of each thread and each call in progress, which the
operating system schedules; none of calls being made, of the watchdog, of the websocket.
`DriverCommands`, `Reconnect`: of each control loop, of scheduled sends and of a dial's end,
since asyncio runs what is ready and the library has timeouts; of the cloud's refusal ageing
out; that troubles are bounded says the network is eventually quiet. `VoiceSession`: of the
event loop, the terminal's hand-over, the agent's reading, the notification reader, a notify()
that has begun and the teardown; nobody has to press or type. `HostedSession`: of each
handler and reader.

## What the failing runs show

* `stop_tracking`: the docstring says the robot halts; its last act is a zero Twist, which the
  driver drops.
* `error_means_stall`: `find_object` over a running greeter leaves `_greeter_stop` set;
  `_motion_aborted` reads both Events, so the search reports a robot that cannot rotate.
* `gate_spelling`: the refusal of a ballistic name is case-sensitive, the table behind it not.
* `stale_correction`: after a turn, when no frame comes within the wait, the frame from before
  it is used again and the robot turns twice for one sighting.
* `last_session`: a comment says the robot is told to lie down "when the last WebSocket session
  ends" (`agentcore_server.py:77`); every session's handler tells it to when its own session ends
  (383), so with two sessions on the shared client the robot lies down under the one that goes
  on. That needs `STAND_DOWN_ON_EXIT`, off by default, and two sessions in one process, a local
  run (84-87). `StandsDownAfterHangUp` therefore says that *any* session that a hang-up ended has
  told the robot to lie down: it is what the code does, and for one session what the comment says.
* `cloud_flag`: one `_cloud_blocked` for all robots: a plain failure of one is backed off as a
  refusal that met another.

## Observations without a run

* The client: `start_greeter` and `start_tracking` stop only the tracker although a comment says
  one behaviour rotates at a time (`go2_ros2_client.py:2217`); `stop_moving` does not end running
  loops (`tools.py:257`); flags never reset, so a topic that is withdrawn and announced again is
  not heard again; two threads that ask at once subscribe twice; the fallback to raw images never
  yields one, because the callback decodes by the configured topic (1026-1046). A tracker that
  outlived the 1 s join of `stop_tracking` ends after the Twist it is sending, unless
  `start_tracking` clears the Event first: then two trackers run, and the client knows one.
* Turns: on a link where a turn goes on 45 to 80 degrees after StopMove (1520-1524) a step of the
  sweep and its overshoot are wider than the view, and the sweep has gaps: `SweepSeesAll` claims
  nothing there (`ViewsOverlap`), nor is a correction kept from crossing the target.
* The gate's window, greeter and search: a visitor may be announced twice; a greeting that raises
  counts as an absence; a detector that dies never re-arms the greeter; frames taken during a
  turn pass the search's gate; one correction per frame holds only if turn, 0.8 s of
  settling and 2.5 s of waiting exceed the 5 s a detection may be old, which a short turn's do not.
* The driver: the log may name the wrong robot (`robot_control_service.py:41`,
  `webrtc_adapter.py:187`), as one queue serves all; at exit only the first robot is disconnected,
  since the loop deletes from the dict it iterates (`main.py:109`); an expired token refused with
  any status but those taken for a rejection is never invalidated; a docstring says three attempts,
  the code makes five. A peer whose disconnect raises is forgotten and never closed
  (`go2_connection.py:255`, 412): if the robot counts it, it stays busy with us; `OnePeer` says that
  nothing else leaves one.
* The bridge: `want()` subscribes once; a topic withdrawn and announced again stays unsubscribed
  (`go2_ap_bridge.py:846`).
* Sessions: a hosted session has no `NotificationInput`, so events are queued and not spoken
  (`agentcore_server.py:371`, against `notifications.py:16`); a client whose websocket died is
  handed to the next session (`agentcore_server.py:99`); a lost link makes `stand_down` raise,
  which skips the disconnect (`session.py:386`); the thin client drains its queue at once, and
  what the loop was handed before still arrives after; in `session.py` a chunk that the audio
  thread hands over between the switch (143) and the scheduling of the drain (145) is drained
  with the old ones, so the beginning of an utterance, or one of a single chunk, may be lost.
* Lidar: "oldest" in a comment are the farthest points; "last 10 seconds" counts clouds, and a
  cloud that is empty once filtered leaves the old ones shown; the
  Python aggregator differs from the C++ one in stamps and frame, and assigns to the node's
  `subscriptions`; a restart overwrites the map file. Video: an endpoint that fails leaves
  the sampler appending; a failed upload loses its segment; consecutive segments overlap in time.
* Simulated dog: `play` clears the Event after it released the lock: a gesture ending just then
  lets `wait_for_motion` return while its own is queued (`sim_dog.py:552`); when a
  walk that a gesture interrupted runs out in the very step in which the gesture ends,
  `_active_twist` overwrites the label the gesture has just set, and a dog that sits is taken to
  stand until its next gesture has ended (`sim_dog.py:733`): `LabelIsPose` leaves out what follows
  such a step (`looked = "crossed"`) and nothing else; a fault makes
  `wait_for_motion` run into its timeout and `stand_up` still report success.

## Proofs

For any sets of threads, callers, robots and any bounds, from the named assumptions of the
modules, which only say what kind of value a constant is; beyond that, `SimAssumption` says
that a gesture has at least one step, `ReconnectAssumption` that robots are numbered from 0,
`LidarAssumption` that rounded coordinates within a lidar's range are finitely many, so that
points can be counted. Three theorems have a hypothesis of their own, named below. The
operators named with a property are the inductive invariant it is proved from.

* `Behaviours_proofs`: `HolderIsMoving`, `NothingLeftMoving`, `SearchingHasSearcher`. The first
  is not inductive: `IInv` adds each thread's budget by its program counter and that the record
  of an ended thread is blank. `TrackerYields` is proved for calls that do not overlap
  (`OneAtATime`, which is how the run makes them); with two at once it is false: `find_object`
  has stopped the tracker and is joining something else when another thread's `start_tracking`
  goes through. `Progress` says how far a call has come in its list of stops, `Told` that from
  the signal of `stop_tracking` to the end of the call nothing is to be tracked. A tracking loop
  may outlive the join, and then it has been told. Of what the liveness properties rest on the
  part that is safety is proved: `NoThreadIsStuck` (a thread that has not ended can step: the
  guards, spelled out in `MayStep`, leave no gap), `ThreadsWindDown` (a step of a thread lowers
  its `Rank` - stage of its program, turns left, place in an iteration, setpoints left - unless
  it is the head of a loop that nobody has told to stop, `KeptOn`; nobody else's step changes
  it), `DescentEnds` (such ranks cannot sink for ever) and, for calls that do not overlap,
  `AwaitedHaveBeenTold` (whom a call waits for is not `KeptOn`). They rest on `Itinerary` (where
  a thread of each kind can be, and that a search that turns has some of the circle left) and
  `Waiting` (whom a call waits for it has told, or runs itself).
* `DangerousGate_proofs`: `IInv` adds to the types that a request is in the slot or with one call
  and that an accepted call holds the request it named; `GateIsTokens` maps Request, Claim, Accept,
  Reject, Perform to Issue, Take, stutter and Use of `Confirmations`. `NoReplay` follows.
* `Driver_proofs`, of `DriverCommands`: `NoLateTwist`, `RequestsInOrder`, `OnceOnly`. Where a
  command can be: `InQueue`, `InReady`, `InGot` order the three places, `Apart` keeps a command
  in one of them, `Dials` bounds connection numbers by the faults. Of `Reconnect`:
  `OneLoginPerToken`, `OnePeer`, `LeftAlone`. `Sequential`: robots are connected one after the
  other, those to come are untouched, and loops work only after all; `Tokens`: logins are the
  dropped tokens and the one in the cache; `Peers`: beyond those whose disconnect raised, a
  handshake or an open channel has the one peer, a wait between attempts none; `Times`: back-offs
  are within 300 s, the slow one at least 30.
* `Tools_proofs`, of `Subscriptions`: `HeardUnlessWithdrawn`. `Channels`: a channel has one feed and
  the next is new; `OwnRequest`: a thread's request asks for its own need; `SentIsCovered`: a thread
  told that its request was sent will set a flag that is covered. `Persists` is the heart: what is
  covered stays covered, whatever is offered, withdrawn, served or sent. Of `SimDog`:
  `LabelIsPose`. `WalkIsSeen`: whoever walks was last seen with its twist on, or a gesture has ended
  since; `WalkStands`: a walk has the label standing, but for the moment between the end of
  a gesture and the loop's look at the twist.
* `Hosted_proofs`, of `HostedSession`: `OneClient` from `Robot` (who dials holds the lock, and then
  there is no client); `StandsDownAfterHangUp` from `Leaving` (which of the two tasks may have
  ended at which point of the handler); `FreshestKept` from `Rises`: a session's frames taken,
  queued and on the wire are one rising sequence, and what was lost is below what is queued. Of
  `ThinClient`: `BargeIn` from `Playing`, which orders answers through the downlink and the buffer.
* `Voice_proofs`: `StandsDown` from `Life` (what the link can be in which phase); `ToldInOrder`
  from `Telling`: told, in the reader's hand and queued are one line in which each behaviour's
  events rise, below the event that it is making. `FreshUtterance` is about the microphone of
  `session.py`, whose drain is scheduled behind what the loop was handed before; of the thin
  client's, which empties the queue at once, it is not claimed (see the observations). `OneLeft`
  names the one chunk of an earlier utterance that may be left, in the loop before or after the
  drain or in the queue.
* `Parts_proofs`. `InOrder` from `Stream`: the commands on the socket rise, above all the dog
  has. `StableView` from `Drawn` and the lemma that a view grows with its cloud.
  `KeepsTheNearest` from `Mapped`; its lemma `TrimKeepsNearest` counts: a newcomer that stays in
  a full map pushes out a point, which lies between it and all that was dropped before.
  `SavedUnlessChanged` is inductive as it stands. `ViewIsRecent` from `Recent`: a point's age
  (`ago`) is how far from the end of the window the last cloud with it stands (`Dated`), also
  after a cloud pushed the oldest out. `GapFree` from `Segments`: the batch under way and the
  frames are a stretch of the samples, without a seam. `OnePerVisit` from `Latch`: the age that
  the loop sees is never more than the real absence, and after a greeting the latch is armed
  again only once that was long. Of `Facing`: `Stills` says which of the frames on their way can
  be of a robot that stands still, `Honest` that those show the target where it is (`SaysItFaces`
  follows: the verdict is read off such a frame), `Ahead` that the target has not passed behind
  the sweep (`SweepSeesAll`). `PointsAtSomething` is proved for searches that need two frames or
  more (`Needed >= 2`; `FIND_CONFIRM_FRAMES` is 2): `Rarely` says that of two successive frames
  one is right, `Counting` that a full streak therefore has a right one; with one frame the
  detector's error would be confirmed.

* `Cdr_proofs`: `EveryoneReads`: for each of the fourteen exchanges and every length of strings
  and sequences, what is written is what its reader reads, each field where it was put;
  `EveryFieldWhereWritten` (`FieldsWhereWritten`) says it of the two cursors that go over the
  bytes, by the invariant `CdrInv` (where a cursor is on its page). `CdrAssumption` asks of the
  bounds only that they are numbers, so the theorem is about messages of any length. The
  argument: a layout lays its fields on a `Page`, which says for each byte what item, of which
  size and how far into it, is there. Two layouts are *alike* if they lay the same from any place
  on, and then they stay alike whatever stands before or after them; two runs of the same aligned
  items are alike to one longer run (`TwoRuns`), a first item without padding to one that is
  aligned where it stands (`Grow`), and a part repeated any number of times to the repetition of
  what it is alike to (`TimesAlike`). A reader may stop early: then the rest of what was written
  is a layout of its own (`Reads`). The number of runs is a message's length, so that this needs
  induction; the library's induction theorems cannot be used with the installed provers, and the
  module proves its own over a *set* of numbers (`Induct`), from the well-foundedness of finite
  sets (`Least`).

Only model-checked: the liveness properties `SearchTerminates`,
`StoppedGreeterEnds`, `OutlivesOutage`, `ComesBack`, `EndIsHeard`, `Announced`, `SessionEnds`, for
liveness under fairness and `ENABLED` are beyond the prover. For the first two the step
from what is proved to the property is the rule of weak fairness: a thread that may step
does, and its rank sinks until it ends. The properties of the six
failing runs are false.

## Not modelled, and why

* Prompts, settings and tools without state; formatting and logging; terminal editing.
* `_calibrate_hfov`, the speed profile and learned coast of a turn, the kinematics, obstacles,
  falls and cameras of the simulated dog, point decoding and ROS publishing: real-valued or
  stateless conversions.
* Scene memory: a bounded list of files and the answers of a vision model. The object
  detector: a network in one callback (its delay and errors are actions of `Facing` and
  `GreeterLatch`).
* The direct WebRTC client, the Lichtblick script and the ffmpeg pusher: one-shot calls or
  scripts that start the parts above.
* The joystick and the obstacle-avoidance switch: further publishers on paths that are modelled.
* Deployment, launch files, images and scripts: configuration.

## Plan

1. `Behaviours` over `DriverCommands` through an abstract ordered road that both implement.
2. The joystick's requests in `DriverCommands`.
