----------------------------- MODULE Behaviours -----------------------------
(***************************************************************************)
(* The behaviours of the voice agent's robot client that drive the robot   *)
(* (voice_agent/go2_ros2_client.py): the tracking loop, the greeter's      *)
(* watch loop and the object search, each on a daemon thread of its own,   *)
(* the one-shot motions a tool call runs on its caller's thread            *)
(* (greet_visitor, turn_degrees, move), and the tool calls that start and  *)
(* stop them.  The threads share three stop Events, three "is it on"       *)
(* fields, the search's status and one robot.                              *)
(*                                                                         *)
(* A thread object is a slot of Threads.  A slot whose thread has ended is *)
(* used again; ref[b] is the live thread the client would join for b (a    *)
(* reference to a dead thread and None are treated alike by the code).     *)
(*                                                                         *)
(* The robot holds the last non-zero Twist it was sent until a StopMove    *)
(* (or its own watchdog) ends it: the driver drops a zero Twist.  While    *)
(* the client's websocket is up, what is published reaches the robot in    *)
(* order; the client never opens a new one, so when it is down every       *)
(* publish raises, for good.                                               *)
(***************************************************************************)
EXTENDS Naturals, Sequences, FiniteSets

CONSTANTS
    Threads,        \* slots for threads, background and foreground
    Callers,        \* threads on which tool calls run
    Calls,          \* the tool calls they make
    NoThread,       \* None in a thread field
    Still,          \* the robot executes no velocity setpoint
    Adrift,         \* it executes one whose thread has ended
    MaxSweep,       \* FIND_MAX_SWEEP_DEGREES, in steps of the sweep
    MaxCorrections, \* the correction budget of _face_target
    MaxTwists,      \* setpoints one turn or one move issues before its deadline
    ClosedLoop,     \* /odom yaw is available to turn_degrees
    FindApproach    \* config.FIND_APPROACH

Behaviour  == {"track", "greet", "find"}
Foreground == {"visit", "rotate", "walk"}

StartOps   == {"start_tracking", "start_greeter", "find_object"}
StopOps    == {"stop_tracking", "stop_greeter", "stop_find"}
MotionOps  == {"greet_visitor", "turn_degrees", "move"}
Ops        == StartOps \cup StopOps \cup MotionOps \cup {"stop_moving"}

ASSUME ConstantsAssumption ==
    /\ Calls \subseteq Ops
    /\ NoThread \notin Threads
    /\ Still \notin Threads
    /\ Adrift \notin Threads \cup {Still}
    /\ MaxSweep \in Nat \ {0}
    /\ MaxCorrections \in Nat
    /\ MaxTwists \in Nat \ {0}
    /\ ClosedLoop \in BOOLEAN
    /\ FindApproach \in BOOLEAN

(* The kind of thread an operation runs. *)
KindOf == [start_tracking |-> "track", start_greeter |-> "greet",
           find_object |-> "find", greet_visitor |-> "visit",
           turn_degrees |-> "rotate", move |-> "walk"]

(* Mutant: find_object leaves the tracker running. *)
YieldsNotTracker ==
    [stop_tracking |-> <<"track">>, stop_greeter |-> <<"greet">>,
     stop_find |-> <<"find">>, start_tracking |-> <<"track">>,
     start_greeter |-> <<"track">>, find_object |-> <<"greet", "find">>,
     greet_visitor |-> << >>, turn_degrees |-> << >>,
     move |-> << >>, stop_moving |-> << >>]

(* The behaviours an operation stops first, in the order of its code. *)
Yields == [stop_tracking |-> <<"track">>, stop_greeter |-> <<"greet">>,
           stop_find |-> <<"find">>, start_tracking |-> <<"track">>,
           start_greeter |-> <<"track">>,
           find_object |-> <<"greet", "track", "find">>,
           greet_visitor |-> << >>, turn_degrees |-> << >>,
           move |-> << >>, stop_moving |-> << >>]

PCs == {"done", "top", "drive", "confirm", "decide", "face", "turn", "twist",
        "settle", "turned", "approach", "approached", "report", "wave",
        "halt"}

VARIABLES
    kind,      \* what each thread runs
    pc,        \* where each thread is; "done" when it has ended
    turns,     \* sweep steps completed, or corrections made, by the thread
    twists,    \* setpoints issued in the thread's current turn or move
    seen,      \* the search thread has confirmed its target
    stop,      \* _tracking_stop, _greeter_stop, _find_stop
    wanted,    \* _tracking_target is not empty, _greeter_active
    ref,       \* _tracking_thread, _greeter_thread, _find_thread
    findState, \* _find_state["state"], "idle" for the empty dict
    setpoint,  \* whose non-zero Twist the robot is executing
    up,        \* the websocket to foxglove_bridge is open
    op, at, phase, awaited  \* per caller: its call, how far, the thread it joins

threadVars == <<kind, pc, turns, twists, seen>>
flagVars   == <<stop, wanted, ref>>
callVars   == <<op, at, phase, awaited>>
vars == <<threadVars, flagVars, findState, setpoint, up, callVars>>

-----------------------------------------------------------------------------
Live(t) == pc[t] # "done"

(* Rotation by any behaviour breaks out on a stop request for either. *)
MotionAborted == stop["greet"] \/ stop["find"]

(* A slot nobody refers to any more. *)
Free(t) == ~Live(t) /\ \A c \in Callers : awaited[c] # t

(* Steps that can outlast the joins of stop_tracking (1 s), stop_greeter   *)
(* (2 s) and stop_find (3 s).  Every publish waits up to 2 s for the event *)
(* loop, and a thread may be at its second one; a turn waits up to 5 s for *)
(* /odom before it looks at the Events, standing still takes 3 s, the wave *)
(* and its pauses 2.1 s, the approach and the vision model's answer their  *)
(* own time.                                                               *)
Slow(t) ==
    \/ pc[t] \in {"drive", "twist", "settle", "face", "wave", "approach",
                  "approached", "report", "halt"}
    \/ pc[t] = "turn" /\ twists[t] = 0

Engaged(b) == IF b = "find" THEN ref["find"] # NoThread ELSE wanted[b]

(* What the robot executes after a StopMove, which _halt sends without     *)
(* looking whether it went out.                                            *)
Stopped == IF up THEN Still ELSE setpoint

(* ... and after a Twist of thread t whose failure t ignores. *)
Driven(t) == {setpoint} \cup {u \in {t} : up}

Goto(t, label) == pc' = [pc EXCEPT ![t] = label]

(* The thread's function returns with the robot doing held. *)
End(t, held) ==
    /\ kind' = [kind EXCEPT ![t] = "none"]
    /\ Goto(t, "done")
    /\ turns' = [turns EXCEPT ![t] = 0]
    /\ twists' = [twists EXCEPT ![t] = 0]
    /\ seen' = [seen EXCEPT ![t] = FALSE]
    /\ ref' = [b \in Behaviour |-> IF ref[b] = t THEN NoThread ELSE ref[b]]
    /\ setpoint' = IF held = t THEN Adrift ELSE held

Continue(t, label) ==
    Goto(t, label) /\ UNCHANGED <<kind, turns, twists, seen, ref>>

-----------------------------------------------------------------------------
Init ==
    /\ kind = [t \in Threads |-> "none"]
    /\ pc = [t \in Threads |-> "done"]
    /\ turns = [t \in Threads |-> 0]
    /\ twists = [t \in Threads |-> 0]
    /\ seen = [t \in Threads |-> FALSE]
    /\ stop = [b \in Behaviour |-> FALSE]
    /\ wanted = [b \in Behaviour |-> FALSE]
    /\ ref = [b \in Behaviour |-> NoThread]
    /\ findState = "idle"
    /\ setpoint = Still
    /\ up = TRUE
    /\ op = [c \in Callers |-> "none"]
    /\ at = [c \in Callers |-> 1]
    /\ phase = [c \in Callers |-> "next"]
    /\ awaited = [c \in Callers |-> NoThread]

-----------------------------------------------------------------------------
(* Tool calls.                                                             *)

(* A call gets past _ensure_connected and the camera and detector          *)
(* preflight (one that does not returns and changes nothing).  The second  *)
(* conjunct bounds the model: every call in progress finds a free slot.    *)
Call(c, o) ==
    /\ op[c] = "none"
    /\ Cardinality({d \in Callers : op[d] # "none"})
          < Cardinality({t \in Threads : Free(t)})
    /\ op' = [op EXCEPT ![c] = o]
    /\ UNCHANGED <<threadVars, flagVars, findState, setpoint, up, at, phase, awaited>>

Pending(c)  == op[c] # "none" /\ phase[c] = "next" /\ at[c] <= Len(Yields[op[c]])
Yielding(c) == Yields[op[c]][at[c]]
Ready(c)    == op[c] # "none" /\ phase[c] = "next" /\ at[c] > Len(Yields[op[c]])

(* Nothing to stop: a start operation goes past it. *)
Skip(c) ==
    /\ Pending(c)
    /\ op[c] \in StartOps
    /\ ~Engaged(Yielding(c))
    /\ at' = [at EXCEPT ![c] = @ + 1]
    /\ UNCHANGED <<threadVars, flagVars, findState, setpoint, op, phase, awaited>>

(* stop_tracking, stop_greeter, stop_find up to the join. *)
Signal(c) ==
    /\ Pending(c)
    /\ op[c] \in StartOps => Engaged(Yielding(c))
    /\ stop' = [stop EXCEPT ![Yielding(c)] = TRUE]
    /\ wanted' = [wanted EXCEPT ![Yielding(c)] = FALSE]
    /\ awaited' = [awaited EXCEPT ![c] = ref[Yielding(c)]]
    /\ phase' = [phase EXCEPT ![c] = "join"]
    /\ UNCHANGED <<threadVars, ref, findState, setpoint, op, at>>

(* The join returns, because the thread ended or because the timeout ran   *)
(* out on a slow step.  stop_greeter and stop_find send StopMove;          *)
(* stop_tracking sends only a zero Twist, which leaves the setpoint alone. *)
Join(c) ==
    LET b == Yielding(c) IN
    /\ phase[c] = "join"
    /\ awaited[c] # NoThread => ~Live(awaited[c]) \/ Slow(awaited[c])
    /\ ref' = [ref EXCEPT ![b] = NoThread]
    /\ setpoint' = IF b = "track" THEN setpoint ELSE Stopped
    /\ findState' = IF b = "find" /\ findState = "searching"
                    THEN "stopped" ELSE findState
    /\ awaited' = [awaited EXCEPT ![c] = NoThread]
    /\ phase' = [phase EXCEPT ![c] = "next"]
    /\ at' = [at EXCEPT ![c] = @ + 1]
    /\ UNCHANGED <<threadVars, stop, wanted, op>>

Returned(c) == /\ op' = [op EXCEPT ![c] = "none"]
               /\ at' = [at EXCEPT ![c] = 1]

(* A stop operation returns, and start_greeter when the greeter is on. *)
Return(c) ==
    /\ Ready(c)
    /\ \/ op[c] \in StopOps
       \/ op[c] = "start_greeter" /\ wanted["greet"]
    /\ Returned(c)
    /\ UNCHANGED <<threadVars, flagVars, findState, setpoint, phase, awaited>>

(* The tail of start_tracking, start_greeter and find_object: clear the    *)
(* Event, record the behaviour as on, start its thread.                    *)
Spawn(c, t) ==
    LET b == KindOf[op[c]] IN
    /\ Ready(c)
    /\ op[c] \in StartOps
    /\ op[c] = "start_greeter" => ~wanted["greet"]
    /\ Free(t)
    /\ kind' = [kind EXCEPT ![t] = b]
    /\ Goto(t, IF b = "find" THEN "confirm" ELSE "top")
    /\ turns' = [turns EXCEPT ![t] = 0]
    /\ twists' = [twists EXCEPT ![t] = 0]
    /\ seen' = [seen EXCEPT ![t] = FALSE]
    /\ stop' = [stop EXCEPT ![b] = FALSE]
    /\ wanted' = [wanted EXCEPT ![b] = (b # "find")]
    /\ ref' = [ref EXCEPT ![b] = t]
    /\ findState' = IF b = "find" THEN "searching" ELSE findState
    /\ Returned(c)
    /\ UNCHANGED <<setpoint, phase, awaited>>

(* greet_visitor, turn_degrees and move run on the caller's thread, and    *)
(* stop no behaviour first.                                                *)
RunMotion(c, t) ==
    LET k == KindOf[op[c]] IN
    /\ Ready(c)
    /\ op[c] \in MotionOps
    /\ Free(t)
    /\ kind' = [kind EXCEPT ![t] = k]
    /\ Goto(t, CASE k = "visit" -> "confirm" [] k = "rotate" -> "turn"
                 [] OTHER -> "drive")
    /\ turns' = [turns EXCEPT ![t] = 0]
    /\ twists' = [twists EXCEPT ![t] = 0]
    /\ seen' = [seen EXCEPT ![t] = FALSE]
    /\ awaited' = [awaited EXCEPT ![c] = t]
    /\ phase' = [phase EXCEPT ![c] = "run"]
    /\ UNCHANGED <<flagVars, findState, setpoint, op, at>>

MotionReturns(c) ==
    /\ phase[c] = "run"
    /\ ~Live(awaited[c])
    /\ Returned(c)
    /\ phase' = [phase EXCEPT ![c] = "next"]
    /\ awaited' = [awaited EXCEPT ![c] = NoThread]
    /\ UNCHANGED <<threadVars, flagVars, findState, setpoint>>

(* stop(): a zero Twist and a StopMove. *)
StopMoving(c) ==
    /\ Ready(c)
    /\ op[c] = "stop_moving"
    /\ setpoint' = Stopped
    /\ Returned(c)
    /\ UNCHANGED <<threadVars, flagVars, findState, phase, awaited>>

CallerStep(c) ==
    /\ UNCHANGED up
    /\ \/ Skip(c) \/ Signal(c) \/ Join(c) \/ Return(c)
       \/ \E t \in Threads : Spawn(c, t) \/ RunMotion(c, t)
       \/ MotionReturns(c) \/ StopMoving(c)

-----------------------------------------------------------------------------
(* _tracking_loop, and move, which has the same two moves.                 *)

TrackTop(t) ==
    /\ kind[t] = "track" /\ pc[t] = "top"
    /\ IF stop["track"] \/ ~wanted["track"]
       THEN End(t, setpoint)
       ELSE Continue(t, "drive") /\ UNCHANGED setpoint
    /\ UNCHANGED <<stop, wanted, findState, callVars>>

(* A non-zero Twist when the target is off centre, a zero one otherwise. *)
TrackDrive(t) ==
    /\ kind[t] = "track" /\ pc[t] = "drive"
    /\ setpoint' \in Driven(t)
    /\ Goto(t, "top")
    /\ UNCHANGED <<kind, turns, twists, seen, flagVars, findState, callVars>>

Walk(t) ==
    /\ kind[t] = "walk" /\ pc[t] = "drive"
    /\ \/ /\ up
          /\ twists[t] < MaxTwists
          /\ twists' = [twists EXCEPT ![t] = @ + 1]
          /\ setpoint' = t
          /\ UNCHANGED <<kind, pc, turns, seen, ref>>
       \/ End(t, setpoint)
    /\ UNCHANGED <<stop, wanted, findState, callVars>>

-----------------------------------------------------------------------------
(* turn_degrees, shared by the sweep, by facing and by the tool.           *)

(* One iteration of the turn loop passes its check, then publishes. *)
TurnCheck(t) ==
    /\ pc[t] = "turn"
    /\ ~MotionAborted
    /\ twists[t] < MaxTwists
    /\ Goto(t, "twist")
    /\ UNCHANGED <<kind, turns, twists, seen, flagVars, findState, setpoint, callVars>>

(* A Twist that cannot be published is counted and forgotten. *)
Twist(t) ==
    /\ pc[t] = "twist"
    /\ setpoint' \in Driven(t)
    /\ twists' = [twists EXCEPT ![t] = @ + 1]
    /\ Goto(t, "turn")
    /\ UNCHANGED <<kind, turns, seen, flagVars, findState, callVars>>

(* The loop ends: aborted, or on the target or the deadline, which it can  *)
(* only reach after a first setpoint.                                      *)
TurnEnds(t) ==
    /\ pc[t] = "turn"
    /\ MotionAborted \/ twists[t] > 0
    /\ Goto(t, "settle")
    /\ UNCHANGED <<kind, turns, twists, seen, flagVars, findState, setpoint, callVars>>

(* Mutant: a turn ends on a zero Twist. *)
SettleWithoutStop(t) ==
    /\ pc[t] = "settle"
    /\ CASE kind[t] = "rotate" -> End(t, setpoint)
         [] kind[t] = "find" /\ ~seen[t] -> Continue(t, "turned") /\ UNCHANGED setpoint
         [] OTHER -> Continue(t, "face") /\ UNCHANGED setpoint
    /\ UNCHANGED <<stop, wanted, findState, callVars>>

(* _halt_and_settle: StopMove until the yaw is quiet. *)
Settle(t) ==
    /\ pc[t] = "settle"
    /\ CASE kind[t] = "rotate" -> End(t, Stopped)
         [] kind[t] = "find" /\ ~seen[t] -> Continue(t, "turned") /\ setpoint' = Stopped
         [] OTHER -> /\ Goto(t, "face")
                     /\ setpoint' = Stopped
                     /\ twists' = [twists EXCEPT ![t] = 0]
                     /\ UNCHANGED <<kind, turns, seen, ref>>
    /\ UNCHANGED <<stop, wanted, findState, callVars>>

-----------------------------------------------------------------------------
(* _face_target: corrections until centred, out of budget, or aborted.     *)

FaceTurn(t) ==
    /\ pc[t] = "face"
    /\ ~MotionAborted
    /\ turns[t] < MaxCorrections
    /\ turns' = [turns EXCEPT ![t] = @ + 1]
    /\ Goto(t, "turn")
    /\ UNCHANGED <<kind, twists, seen, flagVars, findState, setpoint, callVars>>

FaceEnds(t) ==
    /\ pc[t] = "face"
    /\ setpoint' = Stopped
    /\ IF kind[t] = "find"
       THEN \/ Goto(t, "report")
            \/ FindApproach /\ Goto(t, "approach")
       ELSE Goto(t, "wave")
    /\ turns' = [turns EXCEPT ![t] = 0]
    /\ UNCHANGED <<kind, twists, seen, flagVars, findState, callVars>>

-----------------------------------------------------------------------------
(* _greeter_loop, and greet_visitor, which runs one greeting.              *)

(* Mutant: the watch loop looks at the wrong Event. *)
GreetTopOtherEvent(t) ==
    /\ kind[t] = "greet" /\ pc[t] = "top"
    /\ IF stop["find"]
       THEN Goto(t, "halt")
       ELSE Goto(t, "face")
    /\ UNCHANGED <<kind, turns, twists, seen, flagVars, findState, setpoint, callVars>>

(* The watch loop: an iteration with nobody to greet changes nothing. *)
GreetTop(t) ==
    /\ kind[t] = "greet" /\ pc[t] = "top"
    /\ IF stop["greet"]
       THEN Goto(t, "halt")
       ELSE Goto(t, "face")
    /\ UNCHANGED <<kind, turns, twists, seen, flagVars, findState, setpoint, callVars>>

(* greet_visitor: somebody is confirmed, or nobody came. *)
AwaitPerson(t) ==
    /\ kind[t] = "visit" /\ pc[t] = "confirm"
    /\ \/ Continue(t, "face") /\ UNCHANGED setpoint
       \/ End(t, setpoint)
    /\ UNCHANGED <<stop, wanted, findState, callVars>>

(* The wave, the vision model's note and the record, and for the watch     *)
(* loop the announcement.  An exception on the way ends the greeting, not  *)
(* the watch loop.                                                         *)
Wave(t) ==
    /\ pc[t] = "wave"
    /\ \/ kind[t] = "greet" /\ Continue(t, "top") /\ UNCHANGED setpoint
       \/ kind[t] = "visit" /\ End(t, setpoint)
    /\ UNCHANGED <<stop, wanted, findState, callVars>>

(* The last act of _greeter_loop, and the finally clause of _find_loop. *)
Halt(t) ==
    /\ pc[t] = "halt"
    /\ End(t, Stopped)
    /\ UNCHANGED <<stop, wanted, findState, callVars>>

-----------------------------------------------------------------------------
(* _find_loop.                                                             *)

(* _confirm_target gives up as soon as the search is told to stop. *)
Confirm(t) ==
    /\ kind[t] = "find" /\ pc[t] = "confirm"
    /\ \E found \in IF stop["find"] THEN {FALSE} ELSE BOOLEAN :
          seen' = [seen EXCEPT ![t] = found]
    /\ Goto(t, "decide")
    /\ UNCHANGED <<kind, turns, twists, flagVars, findState, setpoint, callVars>>

FindStopped(t) ==
    /\ pc[t] = "decide" /\ stop["find"]
    /\ findState' = "stopped"
    /\ Goto(t, "halt")
    /\ UNCHANGED <<kind, turns, twists, seen, flagVars, setpoint, callVars>>

FindSeen(t) ==
    /\ pc[t] = "decide" /\ ~stop["find"] /\ seen[t]
    /\ turns' = [turns EXCEPT ![t] = 0]
    /\ Goto(t, "face")
    /\ UNCHANGED <<kind, twists, seen, flagVars, findState, setpoint, callVars>>

FindNotFound(t) ==
    /\ pc[t] = "decide" /\ ~stop["find"] /\ ~seen[t] /\ turns[t] = MaxSweep
    /\ findState' = "not_found"
    /\ Goto(t, "halt")
    /\ UNCHANGED <<kind, turns, twists, seen, flagVars, setpoint, callVars>>

SweepTurn(t) ==
    /\ pc[t] = "decide" /\ ~stop["find"] /\ ~seen[t] /\ turns[t] < MaxSweep
    /\ Goto(t, "turn")
    /\ UNCHANGED <<kind, turns, twists, seen, flagVars, findState, setpoint, callVars>>

(* Mutant: the early return on a stall forgets the status. *)
SweepStalledSilently(t) ==
    /\ pc[t] = "turned"
    /\ ClosedLoop
    /\ Goto(t, "halt")
    /\ UNCHANGED <<kind, turns, twists, seen, flagVars, findState, setpoint, callVars>>

(* measured_degrees < TURN_STALL_DEGREES. *)
SweepStalled(t) ==
    /\ pc[t] = "turned"
    /\ ClosedLoop
    /\ findState' = "error"
    /\ Goto(t, "halt")
    /\ UNCHANGED <<kind, turns, twists, seen, flagVars, setpoint, callVars>>

(* Mutant: what was turned is not added to the sweep. *)
SweepNotAdvanced(t) ==
    /\ pc[t] = "turned"
    /\ twists' = [twists EXCEPT ![t] = 0]
    /\ Goto(t, IF stop["find"] THEN "decide" ELSE "confirm")
    /\ UNCHANGED <<kind, turns, seen, flagVars, findState, setpoint, callVars>>

(* The sweep adds what was measured, or without odometry what was asked.   *)
(* What was measured is its own rotation, or what another thread or a      *)
(* setpoint left behind turned the robot meanwhile.                        *)
SweepAdvanced(t) ==
    /\ pc[t] = "turned"
    /\ \E n \in (turns[t] + 1)..MaxSweep : turns' = [turns EXCEPT ![t] = n]
    /\ twists' = [twists EXCEPT ![t] = 0]
    /\ Goto(t, IF stop["find"] THEN "decide" ELSE "confirm")
    /\ UNCHANGED <<kind, seen, flagVars, findState, setpoint, callVars>>

(* The opt-in approach: move() looks at no stop Event, and raises when the *)
(* connection is gone.                                                     *)
Approach(t) ==
    /\ pc[t] = "approach"
    /\ \/ up /\ setpoint' = t /\ Goto(t, "approached") /\ UNCHANGED findState
       \/ findState' = "error" /\ Goto(t, "halt") /\ UNCHANGED setpoint
    /\ UNCHANGED <<kind, turns, twists, seen, flagVars, callVars>>

(* It may also raise part-way, and leave the stopping to the finally. *)
Approached(t) ==
    /\ pc[t] = "approached"
    /\ \/ setpoint' = Stopped /\ Goto(t, "report") /\ UNCHANGED findState
       \/ findState' = "error" /\ Goto(t, "halt") /\ UNCHANGED setpoint
    /\ UNCHANGED <<kind, turns, twists, seen, flagVars, callVars>>

Report(t) ==
    /\ pc[t] = "report"
    /\ findState' = "found"
    /\ Goto(t, "halt")
    /\ UNCHANGED <<kind, turns, twists, seen, flagVars, setpoint, callVars>>

ThreadStep(t) ==
    /\ UNCHANGED up
    /\ \/ TrackTop(t) \/ TrackDrive(t) \/ Walk(t)
       \/ TurnCheck(t) \/ Twist(t) \/ TurnEnds(t) \/ Settle(t)
       \/ FaceTurn(t) \/ FaceEnds(t)
       \/ GreetTop(t) \/ AwaitPerson(t) \/ Wave(t) \/ Halt(t)
       \/ Confirm(t) \/ FindStopped(t) \/ FindSeen(t) \/ FindNotFound(t)
       \/ SweepTurn(t) \/ SweepStalled(t) \/ SweepAdvanced(t)
       \/ Approach(t) \/ Approached(t) \/ Report(t)

(* The robot's own watchdog drops a setpoint nobody refreshes. *)
Watchdog ==
    /\ setpoint # Still
    /\ setpoint' = Still
    /\ UNCHANGED <<threadVars, flagVars, findState, up, callVars>>

(* The bridge goes away, or the network between it and the agent. *)
SocketCloses ==
    /\ up
    /\ up' = FALSE
    /\ UNCHANGED <<threadVars, flagVars, findState, setpoint, callVars>>

-----------------------------------------------------------------------------
Next ==
    \/ \E c \in Callers, o \in Calls : Call(c, o)
    \/ \E c \in Callers : CallerStep(c)
    \/ \E t \in Threads : ThreadStep(t)
    \/ Watchdog
    \/ SocketCloses

(* Threads are scheduled by the operating system; nobody has to make a     *)
(* call, and nothing is assumed of the robot's watchdog.                   *)
Fairness ==
    /\ \A c \in Callers : WF_vars(CallerStep(c))
    /\ \A t \in Threads : WF_vars(ThreadStep(t))

Spec == Init /\ [][Next]_vars
FairSpec == Spec /\ Fairness

-----------------------------------------------------------------------------
MaxTurns == IF MaxSweep > MaxCorrections THEN MaxSweep ELSE MaxCorrections

(* Fields hold what their writers put there, and the budgets of a turn, of *)
(* the sweep and of _face_target are kept.                                 *)
TypeOK ==
    /\ kind \in [Threads -> Behaviour \cup Foreground \cup {"none"}]
    /\ pc \in [Threads -> PCs]
    /\ turns \in [Threads -> 0..MaxTurns]
    /\ twists \in [Threads -> 0..MaxTwists]
    /\ seen \in [Threads -> BOOLEAN]
    /\ stop \in [Behaviour -> BOOLEAN]
    /\ wanted \in [Behaviour -> BOOLEAN]
    /\ ref \in [Behaviour -> Threads \cup {NoThread}]
    /\ findState \in {"idle", "searching", "found", "not_found", "stopped", "error"}
    /\ setpoint \in Threads \cup {Still, Adrift}
    /\ up \in BOOLEAN
    /\ op \in [Callers -> Ops \cup {"none"}]
    /\ at \in [Callers -> Nat \ {0}]
    /\ phase \in [Callers -> {"next", "join", "run"}]
    /\ awaited \in [Callers -> Threads \cup {NoThread}]

(* As long as the websocket is up, the robot executes the setpoint of a    *)
(* greeting, a search or a measured turn only while that thread is         *)
(* turning, approaching or about to halt: not while it waves (the robot    *)
(* rejects gestures when it walks), looks or reports.                      *)
HolderIsMoving ==
    up /\ setpoint \in Threads =>
        \/ kind[setpoint] \in {"track", "walk"}
        \/ pc[setpoint] \in {"turn", "twist", "settle", "approached", "halt"}

(* Only the tracker and move(), which end on a zero Twist that the driver  *)
(* drops, leave the robot moving behind them: a greeting, a search or a    *)
(* measured turn never does, however it ends, as long as the websocket is  *)
(* up.                                                                     *)
NothingLeftMoving ==
    [][up /\ setpoint' = Adrift /\ setpoint # Adrift =>
          setpoint \in Threads /\ kind[setpoint] \in {"track", "walk"}]_vars

(* get_find_status never reports "searching" when no search is left to     *)
(* reach a verdict: each way out of _find_loop writes one, and stop_find   *)
(* writes one for a search it gave up waiting for.                         *)
SearchingHasSearcher ==
    findState = "searching" =>
        \E t \in Threads : kind[t] = "find" /\ pc[t] \notin {"done", "halt"}

(* The tracker yields: a greeter or a search starts only when every        *)
(* tracking loop that is left has been told to stop.  One that outlived    *)
(* the join of stop_tracking is at its last publish and goes no further.   *)
TrackerYields ==
    [][\A t \in Threads :
          ~Live(t) /\ Live(t)' /\ kind'[t] \in {"greet", "find"} =>
              \A u \in Threads :
                  kind[u] = "track" /\ Live(u) =>
                      stop["track"] \/ ~wanted["track"]]_vars

(* A search ends by itself: it finds, gives up, is stopped, or notices the *)
(* robot does not turn - whatever the other behaviours do to the Events.   *)
SearchTerminates ==
    \A t \in Threads : (kind[t] = "find" /\ Live(t)) ~> ~Live(t)

(* A greeter told to stop ends, unless the Event is cleared first by a new *)
(* start_greeter.                                                          *)
StoppedGreeterEnds ==
    \A t \in Threads :
        (kind[t] = "greet" /\ Live(t) /\ stop["greet"])
            ~> (~Live(t) \/ ~stop["greet"])

-----------------------------------------------------------------------------
(* What comments, docstrings and messages of the code say of it, and it    *)
(* does not do.                                                            *)

(* stop_tracking: "Stop the active tracking loop and halt the robot."      *)
StopTrackingHalts ==
    [][\A c \in Callers :
          op[c] = "stop_tracking" /\ op'[c] = "none" =>
              ~up \/ setpoint' # Adrift]_vars

(* _find_loop: "Robot isn't actually rotating (not standing, on its side,  *)
(* commands rejected)".  A search that nobody stops says so only of a      *)
(* robot it has told to turn.                                              *)
ErrorMeansStall ==
    [][\A t \in Threads :
          /\ pc[t] = "turned" /\ pc'[t] = "halt" /\ ~stop["find"]
          => twists[t] > 0]_vars

=============================================================================
