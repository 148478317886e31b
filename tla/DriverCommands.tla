--------------------------- MODULE DriverCommands ---------------------------
(***************************************************************************)
(* The path of a command through the driver (go2_robot_sdk): the ROS       *)
(* thread's callbacks (go2_driver_node, robot_control_service), the        *)
(* adapter's one queue of requests, and on the asyncio loop a control loop *)
(* per robot that watches the data channel, reconnects, and drains the     *)
(* queue every 0.1 s (webrtc_adapter, run_robot_control_loop).             *)
(*                                                                         *)
(* A Twist does not pass through the queue: it is handed to the event loop *)
(* at once.  A request (StopMove, a gesture, ...) waits for a control      *)
(* loop.  What the event loop was handed goes out in that order, on the    *)
(* connection object that was current when it was handed over.             *)
(***************************************************************************)
EXTENDS Naturals, Sequences

CONSTANTS
    Robots,
    MaxCommands,  \* bound on the commands published
    MaxFaults     \* bound on the channels lost and the connects failed

ASSUME DriverAssumption == MaxCommands \in Nat /\ MaxFaults \in Nat

VARIABLES
    made,     \* how many commands were published; a command has its number
    queue,    \* webrtc_msgs
    ready,    \* sends scheduled on the event loop, oldest first
    conn,     \* which connection object connections[r] is
    open,     \* its data channel is there and open
    phase,    \* the control loop of r: "check", or "dialing"
    booting,  \* robots connect_robots has not finished with
    got,      \* what each robot received, in order
    faults    \* channels lost and connects failed so far

linkVars == <<conn, open, phase, booting, faults>>
vars == <<made, queue, ready, linkVars, got>>

Commands == [id : 1..MaxCommands, sort : {"twist", "request"}, robot : Robots]
Sends == [command : Commands, robot : Robots, conn : 1..(MaxFaults + 1)]

(* connect_robots makes the first connections before the loops start. *)
Init ==
    /\ made = 0
    /\ queue = << >>
    /\ ready = << >>
    /\ conn = [r \in Robots |-> 1]
    /\ open = [r \in Robots |-> FALSE]
    /\ phase = [r \in Robots |-> "dialing"]
    /\ booting = Robots
    /\ got = [r \in Robots |-> << >>]
    /\ faults = 0

-----------------------------------------------------------------------------
(* The ROS thread.                                                         *)

Made(s, r) == [id |-> made + 1, sort |-> s, robot |-> r]
Send(command, r) == [command |-> command, robot |-> r, conn |-> conn[r]]

(* _on_cmd_vel with a velocity that is not zero in all three: scheduled at *)
(* once, or dropped when there is no data channel to send it on.           *)
CmdVel(r) ==
    /\ made < MaxCommands
    /\ made' = made + 1
    /\ ready' = IF open[r] THEN Append(ready, Send(Made("twist", r), r)) ELSE ready
    /\ UNCHANGED <<queue, linkVars, got>>

(* _on_webrtc_req: queued, whatever state the connection is in. *)
WebrtcReq(r) ==
    /\ made < MaxCommands
    /\ made' = made + 1
    /\ queue' = Append(queue, Made("request", r))
    /\ UNCHANGED <<ready, linkVars, got>>

-----------------------------------------------------------------------------
(* The event loop.                                                         *)

(* Mutant: the queue is read and not emptied. *)
DrainKeeping(r) ==
    /\ ready' = ready \o [i \in 1..Len(queue) |-> Send(queue[i], r)]
    /\ queue' = queue

(* Mutant: newest first. *)
DrainBackwards(r) ==
    /\ ready' = ready \o [i \in 1..Len(queue) |-> Send(queue[Len(queue) + 1 - i], r)]
    /\ queue' = << >>

(* Mutant: sent at once, the drain being on the event loop already. *)
DrainAhead(r) ==
    /\ ready' = [i \in 1..Len(queue) |-> Send(queue[i], r)] \o ready
    /\ queue' = << >>

(* process_webrtc_commands(r) hands over all there is, whoever it is for. *)
Drain(r) ==
    /\ ready' = ready \o [i \in 1..Len(queue) |-> Send(queue[i], r)]
    /\ queue' = << >>

(* One iteration that finds the channel open. *)
Serve(r) ==
    /\ booting = {}
    /\ phase[r] = "check" /\ open[r]
    /\ Drain(r)
    /\ UNCHANGED <<made, linkVars, got>>

(* One that does not: the old connection goes, a new one is dialled. *)
Redial(r) ==
    /\ booting = {}
    /\ phase[r] = "check" /\ ~open[r]
    /\ conn' = [conn EXCEPT ![r] = @ + 1]
    /\ phase' = [phase EXCEPT ![r] = "dialing"]
    /\ UNCHANGED <<made, queue, ready, open, booting, got, faults>>

(* connect() returns with a data channel.  A control loop goes on to drain *)
(* the queue in the same step: nothing on the way yields.                  *)
ConnectReturns(r) ==
    /\ phase[r] = "dialing"
    /\ open' = [open EXCEPT ![r] = TRUE]
    /\ phase' = [phase EXCEPT ![r] = "check"]
    /\ booting' = booting \ {r}
    /\ IF r \in booting THEN UNCHANGED <<queue, ready>> ELSE Drain(r)
    /\ UNCHANGED <<made, conn, got, faults>>

(* Mutant: a connect that fails ends the control loop. *)
ConnectFailsForGood(r) ==
    /\ phase[r] = "dialing"
    /\ faults < MaxFaults
    /\ faults' = faults + 1
    /\ phase' = [phase EXCEPT ![r] = "ended"]
    /\ booting' = booting \ {r}
    /\ UNCHANGED <<made, queue, ready, conn, open, got>>

(* connect() raises: the loop waits out its back-off and looks again. *)
ConnectFails(r) ==
    /\ phase[r] = "dialing"
    /\ faults < MaxFaults
    /\ faults' = faults + 1
    /\ phase' = [phase EXCEPT ![r] = "check"]
    /\ booting' = booting \ {r}
    /\ UNCHANGED <<made, queue, ready, conn, open, got>>

(* The peer connection drops. *)
ChannelCloses(r) ==
    /\ open[r]
    /\ faults < MaxFaults
    /\ faults' = faults + 1
    /\ open' = [open EXCEPT ![r] = FALSE]
    /\ UNCHANGED <<made, queue, ready, conn, phase, booting, got>>

(* _async_send_command: what its connection can no longer send is lost. *)
Deliver ==
    /\ ready # << >>
    /\ LET send == Head(ready) IN
         got' = IF open[send.robot] /\ conn[send.robot] = send.conn
                THEN [got EXCEPT ![send.robot] = Append(@, send.command)]
                ELSE got
    /\ ready' = Tail(ready)
    /\ UNCHANGED <<made, queue, linkVars>>

Loop(r) == Serve(r) \/ Redial(r) \/ ConnectReturns(r) \/ ConnectFails(r)

Next ==
    \/ \E r \in Robots : CmdVel(r) \/ WebrtcReq(r) \/ Loop(r) \/ ChannelCloses(r)
    \/ Deliver

(* The event loop runs what is scheduled on it, and connect() ends, having *)
(* at most five attempts; nothing is assumed of the ROS thread.            *)
Fairness ==
    /\ \A r \in Robots : WF_vars(Loop(r))
    /\ WF_vars(Deliver)

Spec == Init /\ [][Next]_vars
FairSpec == Spec /\ Fairness

-----------------------------------------------------------------------------
TypeOK ==
    /\ made \in 0..MaxCommands
    /\ queue \in Seq(Commands)
    /\ ready \in Seq(Sends)
    /\ conn \in [Robots -> 1..(MaxFaults + 1)]
    /\ open \in [Robots -> BOOLEAN]
    /\ phase \in [Robots -> {"check", "dialing"}]
    /\ booting \subseteq Robots
    /\ got \in [Robots -> Seq(Commands)]
    /\ faults \in 0..MaxFaults

(* StopMove is the last word on the Twists before it: a robot never        *)
(* receives a Twist published before a request it already has, so a turn   *)
(* that was stopped does not start again by itself, reconnects included.   *)
NoLateTwist ==
    \A r \in Robots : \A i, j \in 1..Len(got[r]) :
        i < j /\ got[r][i].sort = "request" /\ got[r][j].sort = "twist"
            => got[r][i].id < got[r][j].id

(* A robot receives requests in the order in which they were published.    *)
RequestsInOrder ==
    \A r \in Robots : \A i, j \in 1..Len(got[r]) :
        i < j /\ got[r][i].sort = "request" /\ got[r][j].sort = "request"
            => got[r][i].id < got[r][j].id

(* No command is carried out twice, by one robot or by two, however many   *)
(* control loops drain the one queue.                                      *)
OnceOnly ==
    \A r, s \in Robots : \A i \in 1..Len(got[r]), j \in 1..Len(got[s]) :
        got[r][i].id = got[s][j].id => r = s /\ i = j

(* A request outlives an outage, and is carried out once the connection is *)
(* back: what is queued is received, unless the connection breaks again.   *)
Queued(n) == \E i \in 1..Len(queue) : queue[i].id = n
Received(n) == \E r \in Robots : \E i \in 1..Len(got[r]) : got[r][i].id = n
OutlivesOutage ==
    \A n \in 1..MaxCommands, f \in 0..MaxFaults :
        (Queued(n) /\ faults = f) ~> (Received(n) \/ faults > f)

=============================================================================
