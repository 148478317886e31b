--------------------------- MODULE HostedSession ---------------------------
(***************************************************************************)
(* The server of the hosted agent (voice_agent/agentcore_server.py, with   *)
(* client_registry.py): websocket sessions that share one robot client.    *)
(*                                                                         *)
(* Each session's handler runs on the event loop; getting the robot client *)
(* runs on a thread of its own under a lock.  A session's frames arrive in *)
(* order; its reader task puts what it accepts on a bounded queue from     *)
(* which the agent reads.  The handler waits for the agent to end or for   *)
(* the reader to see the client gone, whichever is first, cancels the      *)
(* other without waiting for it, and may make the robot lie down.          *)
(***************************************************************************)
EXTENDS Integers, Sequences, FiniteSets

CONSTANTS
    Session,         \* websocket connections
    Nobody,          \* no thread holds the lock
    QueueSize,       \* capacity of a session's queue of frames
    MaxFrames,       \* bound: frames sent by all clients
    StandDownOnExit  \* STAND_DOWN_ON_EXIT

ASSUME HostedAssumption ==
    /\ Nobody \notin Session
    /\ QueueSize \in Nat \ {0} /\ MaxFrames \in Nat
    /\ StandDownOnExit \in BOOLEAN

(* What a client sends: audio or text; what is dropped (a forged robot      *)
(* event, an unknown kind, no JSON); and what ends the reader (close, or    *)
(* JSON of a shape that makes it raise).                                    *)
Kinds == {"input", "dropped", "close"}

VARIABLES
    lock,    \* who holds _client_lock
    client,  \* _client: its websocket to the bridge, or "none"
    clients, \* client objects with an open websocket
    pc,      \* where each session's handler is
    wire,    \* frames on their way from each client
    frames,  \* frames sent by all clients
    peer,    \* each client: "away", "here", "gone"
    reader,  \* each session's reader task
    queue,   \* each session's queue
    taken,   \* frames each agent was given
    lost,    \* accepted frames dropped from a full queue
    closed,  \* each session's _closed
    agent,   \* each session's agent task
    crouched \* sessions that sent StandDown

robotVars == <<lock, client, clients>>
wireVars  == <<wire, frames, peer>>
readVars  == <<reader, queue, taken, lost, closed>>
hostedVars == <<robotVars, pc, wireVars, readVars, agent, crouched>>

HostedInit ==
    /\ lock = Nobody /\ client = "none" /\ clients = 0
    /\ pc = [s \in Session |-> "none"]
    /\ wire = [s \in Session |-> << >>]
    /\ frames = 0
    /\ peer = [s \in Session |-> "away"]
    /\ reader = [s \in Session |-> "none"]
    /\ queue = [s \in Session |-> << >>]
    /\ taken = [s \in Session |-> << >>]
    /\ lost = [s \in Session |-> {}]
    /\ closed = [s \in Session |-> FALSE]
    /\ agent = [s \in Session |-> "none"]
    /\ crouched = {}

Goto(s, label) == pc' = [pc EXCEPT ![s] = label]

-----------------------------------------------------------------------------
(* The client side of a connection.                                        *)

Arrive(s) ==
    /\ peer[s] = "away"
    /\ peer' = [peer EXCEPT ![s] = "here"]
    /\ Goto(s, "accepted")
    /\ UNCHANGED <<robotVars, wire, frames, readVars, agent, crouched>>

SendFrame(s) ==
    /\ peer[s] = "here" /\ frames < MaxFrames
    /\ frames' = frames + 1
    /\ \E kind \in Kinds :
          wire' = [wire EXCEPT ![s] = Append(@, [kind |-> kind, n |-> frames'])]
    /\ UNCHANGED <<robotVars, pc, peer, readVars, agent, crouched>>

(* The connection closes: the user's doing, or the network's. *)
HangUp(s) ==
    /\ peer[s] = "here"
    /\ peer' = [peer EXCEPT ![s] = "gone"]
    /\ UNCHANGED <<robotVars, pc, wire, frames, readVars, agent, crouched>>

-----------------------------------------------------------------------------
(* The robot client of the process.                                        *)

(* Mutant: the lock is not taken. *)
TakeNoLock(s) ==
    /\ pc[s] = "accepted"
    /\ Goto(s, IF client # "none" THEN "ready" ELSE "dialling")
    /\ UNCHANGED <<robotVars, wireVars, readVars, agent, crouched>>

(* _get_or_connect_client: a client that has ever connected is reused,     *)
(* is_connected is not told of a websocket that has closed.                *)
TakeLock(s) ==
    /\ pc[s] = "accepted" /\ lock = Nobody
    /\ IF client # "none"
       THEN Goto(s, "ready") /\ UNCHANGED lock
       ELSE Goto(s, "dialling") /\ lock' = s
    /\ UNCHANGED <<client, clients, wireVars, readVars, agent, crouched>>

Dial(s) ==
    /\ pc[s] = "dialling"
    /\ client' = "open"
    /\ clients' = clients + 1
    /\ lock' = Nobody
    /\ Goto(s, "ready")
    /\ UNCHANGED <<wireVars, readVars, agent, crouched>>

(* The bridge is unreachable: an error frame, and the session is over (a    *)
(* websocket that opened before connect() failed stays open, unused).       *)
DialFails(s) ==
    /\ pc[s] = "dialling"
    /\ lock' = Nobody
    /\ Goto(s, "ending")
    /\ UNCHANGED <<client, clients, wireVars, readVars, agent, crouched>>

BridgeCloses ==
    /\ client = "open"
    /\ client' = "dead"
    /\ clients' = clients - 1
    /\ UNCHANGED <<lock, pc, wireVars, readVars, agent, crouched>>

-----------------------------------------------------------------------------
(* One session.                                                            *)

(* The agent's task starts its input, and with it the reader. *)
StartAgent(s) ==
    /\ pc[s] = "ready"
    /\ Goto(s, "waiting")
    /\ agent' = [agent EXCEPT ![s] = "running"]
    /\ reader' = [reader EXCEPT ![s] = "reading"]
    /\ UNCHANGED <<robotVars, wireVars, queue, taken, lost, closed, crouched>>

(* Mutant: a full queue keeps its backlog. *)
EnqueueUnlessFull(s, frame) ==
    IF Len(queue[s]) < QueueSize
    THEN queue' = [queue EXCEPT ![s] = Append(@, frame.n)] /\ UNCHANGED lost
    ELSE lost' = [lost EXCEPT ![s] = @ \cup {frame.n}] /\ UNCHANGED queue

(* put_nowait; a full queue loses its oldest frame. *)
Enqueue(s, frame) ==
    IF Len(queue[s]) < QueueSize
    THEN queue' = [queue EXCEPT ![s] = Append(@, frame.n)] /\ UNCHANGED lost
    ELSE /\ queue' = [queue EXCEPT ![s] = Append(Tail(@), frame.n)]
         /\ lost' = [lost EXCEPT ![s] = @ \cup {Head(queue[s])}]

(* Mutant: only a close frame closes the session. *)
ReaderEndsSilently(s, frame) ==
    /\ reader' = [reader EXCEPT ![s] = "done"]
    /\ closed' = [closed EXCEPT ![s] = frame = "close"]

(* The reader's finally. *)
ReaderEnds(s, frame) ==
    /\ reader' = [reader EXCEPT ![s] = "done"]
    /\ closed' = [closed EXCEPT ![s] = TRUE]

(* _read_loop: the next frame, or the end of the connection behind the     *)
(* last one.                                                               *)
Read(s) ==
    /\ reader[s] = "reading"
    /\ IF wire[s] # << >>
       THEN LET frame == Head(wire[s]) IN
            /\ wire' = [wire EXCEPT ![s] = Tail(@)]
            /\ IF frame.kind = "input" THEN Enqueue(s, frame) ELSE UNCHANGED <<queue, lost>>
            /\ IF frame.kind = "close"
               THEN ReaderEnds(s, frame.kind)
               ELSE UNCHANGED <<reader, closed>>
       ELSE /\ peer[s] = "gone"
            /\ ReaderEnds(s, "gone")
            /\ UNCHANGED <<wire, queue, lost>>
    /\ UNCHANGED <<robotVars, pc, frames, peer, taken, agent, crouched>>

(* WebSocketInput.__call__; with nothing queued it waits, for ever once    *)
(* the client is gone.                                                     *)
Take(s) ==
    /\ agent[s] = "running" /\ queue[s] # << >>
    /\ taken' = [taken EXCEPT ![s] = Append(@, Head(queue[s]))]
    /\ queue' = [queue EXCEPT ![s] = Tail(@)]
    /\ UNCHANGED <<robotVars, pc, wireVars, reader, lost, closed, agent, crouched>>

(* The agent stops its input as it ends: WebSocketInput.stop. *)
InputStops(s) ==
    /\ reader' = [reader EXCEPT ![s] = "done"]
    /\ closed' = [closed EXCEPT ![s] = TRUE]
    /\ UNCHANGED <<robotVars, pc, wireVars, queue, taken, lost, crouched>>

(* The model's stream ends, or the agent raises. *)
TaskEnds(s) ==
    /\ agent[s] = "running"
    /\ \E how \in {"ended", "failed"} : agent' = [agent EXCEPT ![s] = how]
    /\ InputStops(s)

(* Mutant: the tasks that lost the race are asked for their result, too. *)
DecideForAll(s) ==
    /\ pc[s] = "waiting"
    /\ closed[s] \/ agent[s] \in {"ended", "failed"}
    /\ agent' = [agent EXCEPT ![s] = IF @ = "running" THEN "cancelling" ELSE @]
    /\ Goto(s, IF agent[s] # "ended" \/ ~StandDownOnExit THEN "ending" ELSE "standing")
    /\ UNCHANGED <<robotVars, wireVars, readVars, crouched>>

(* asyncio.wait returns with whatever is done; the other is cancelled.  An *)
(* agent that failed ends the session here.                                *)
Decide(s) ==
    /\ pc[s] = "waiting"
    /\ closed[s] \/ agent[s] \in {"ended", "failed"}
    /\ agent' = [agent EXCEPT ![s] = IF @ = "running" THEN "cancelling" ELSE @]
    /\ Goto(s, IF agent[s] = "failed" \/ ~StandDownOnExit THEN "ending" ELSE "standing")
    /\ UNCHANGED <<robotVars, wireVars, readVars, crouched>>

(* The cancelled agent is gone; nobody waited for it. *)
AgentStops(s) ==
    /\ agent[s] = "cancelling"
    /\ agent' = [agent EXCEPT ![s] = "cancelled"]
    /\ InputStops(s)

(* stand_down, which raises when the bridge is gone. *)
MakeStandDown(s) ==
    /\ pc[s] = "standing"
    /\ crouched' = IF client = "open" THEN crouched \cup {s} ELSE crouched
    /\ Goto(s, "ending")
    /\ UNCHANGED <<robotVars, wireVars, readVars, agent>>

(* The handler's finally closes the connection. *)
CloseSession(s) ==
    /\ pc[s] = "ending"
    /\ Goto(s, "closed")
    /\ peer' = [peer EXCEPT ![s] = "gone"]
    /\ UNCHANGED <<robotVars, wire, frames, readVars, agent, crouched>>

Handler(s) == TakeLock(s) \/ Dial(s) \/ DialFails(s) \/ StartAgent(s) \/ Decide(s)
              \/ MakeStandDown(s) \/ CloseSession(s)
HostedNext ==
    \/ \E s \in Session :
          \/ Arrive(s) \/ SendFrame(s) \/ HangUp(s)
          \/ Handler(s) \/ Read(s) \/ Take(s) \/ TaskEnds(s) \/ AgentStops(s)
    \/ BridgeCloses

HostedSpec == HostedInit /\ [][HostedNext]_hostedVars

(* The event loop and the threads run on; clients, the bridge and the      *)
(* model owe nothing.                                                      *)
HostedFairness == \A s \in Session : WF_hostedVars(Handler(s)) /\ WF_hostedVars(Read(s))

FairHostedSpec == HostedSpec /\ HostedFairness
HostedTypeOK ==
    /\ lock \in Session \cup {Nobody}
    /\ client \in {"none", "open", "dead"} /\ clients \in Nat
    /\ pc \in [Session -> {"none", "accepted", "dialling", "ready", "waiting",
                            "standing", "ending", "closed"}]
    /\ wire \in [Session -> Seq([kind : Kinds, n : Nat])]
    /\ frames \in Nat
    /\ peer \in [Session -> {"away", "here", "gone"}]
    /\ reader \in [Session -> {"none", "reading", "done"}]
    /\ \A s \in Session : /\ queue[s] \in Seq(Nat) /\ Len(queue[s]) <= QueueSize
                          /\ taken[s] \in Seq(Nat) /\ lost[s] \subseteq Nat
    /\ closed \in [Session -> BOOLEAN]
    /\ agent \in [Session -> {"none", "running", "ended", "failed", "cancelling", "cancelled"}]
    /\ crouched \subseteq Session

-----------------------------------------------------------------------------
(* However many sessions begin at once, the process has at most one robot  *)
(* client (_client_lock).                                                  *)
OneClient == clients <= 1

(* The agent is given a session's frames in the order they were sent, and  *)
(* what a full queue loses is older than all it keeps (_read_loop).        *)
FreshestKept == \A s \in Session :
    LET given == taken[s] \o queue[s] IN
    /\ \A i, j \in 1..Len(given) : i < j => given[i] < given[j]
    /\ \A n \in lost[s], i \in 1..Len(queue[s]) : n < queue[s][i]

(* A session that ended because its client went makes the robot lie down,  *)
(* if it is to, however the cancelled agent fares (websocket_handler): any *)
(* session does, also while another one is using the robot.                *)
StandsDownAfterHangUp == \A s \in Session :
    pc[s] = "closed" /\ agent[s] \in {"cancelling", "cancelled"}
        /\ StandDownOnExit /\ client = "open"
            => s \in crouched

(* "Send the dog StandDown when the last WebSocket session ends"           *)
(* (agentcore_server.py, of STAND_DOWN_ON_EXIT): the robot is not made to  *)
(* lie down while the agent of some session is running.                    *)
LastSessionEnds ==
    [][crouched' # crouched => \A s \in Session : agent[s] # "running"]_hostedVars

(* A client that goes is noticed, whatever its last frames were and        *)
(* whatever the agent is doing (wait_closed, the reader's finally).        *)
SessionEnds == \A s \in Session : peer[s] = "gone" ~> pc[s] = "closed"
=============================================================================
