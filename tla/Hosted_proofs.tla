---------------------------- MODULE Hosted_proofs ----------------------------
(***************************************************************************)
(* The two ends of the hosted agent.  The server: one robot client however *)
(* many sessions begin at once, frames in the order they were sent, and a  *)
(* robot that lies down when its user has gone.  The terminal client: an   *)
(* answer that was interrupted is not played on.  For any number of        *)
(* sessions, frames and answers and any size of the queue.                 *)
(***************************************************************************)
EXTENDS HostedSession, ThinClient, SequenceTheorems, TLAPS

-----------------------------------------------------------------------------
(* The robot client of the process.                                        *)

Labels == {"none", "accepted", "dialling", "ready", "waiting", "standing", "ending", "closed"}
Tasks == {"none", "running", "ended", "failed", "cancelling", "cancelled"}

(* Whoever dials holds the lock, and nobody has dialled with success before.*)
Robot ==
    /\ lock \in Session \cup {Nobody}
    /\ client \in {"none", "open", "dead"}
    /\ clients = IF client = "open" THEN 1 ELSE 0
    /\ pc \in [Session -> Labels]
    /\ \A s \in Session : pc[s] = "dialling" => lock = s
    /\ lock # Nobody => client = "none"

(* An agent runs only with a robot client, and starts where the handler    *)
(* begins to wait; the handler leaves no cancelled agent without StandDown *)
(* unless the bridge had gone.                                             *)
Leaving ==
    /\ agent \in [Session -> Tasks]
    /\ peer \in [Session -> {"away", "here", "gone"}]
    /\ \A s \in Session : peer[s] = "away" => pc[s] = "none"
    /\ \A s \in Session : pc[s] = "ready" => client # "none"
    /\ \A s \in Session : agent[s] # "none" => client # "none"
    /\ \A s \in Session : pc[s] \in {"none", "accepted", "dialling", "ready"} => agent[s] = "none"
    /\ \A s \in Session :
          pc[s] \in {"ending", "closed"} /\ agent[s] \in {"cancelling", "cancelled"}
              /\ StandDownOnExit /\ client = "open" => s \in crouched

LEMMA RobotInit == HostedInit => Robot
  BY HostedAssumption DEF HostedInit, Robot, Labels

LEMMA RobotStep == ASSUME Robot, HostedNext PROVE Robot'
<1> USE HostedAssumption DEF Robot, Labels, Goto
<1>1. ASSUME NEW s \in Session, Arrive(s) PROVE Robot'
  BY <1>1 DEF Arrive, robotVars
<1>2. ASSUME NEW s \in Session, SendFrame(s) \/ HangUp(s) PROVE Robot'
  BY <1>2 DEF SendFrame, HangUp, robotVars
<1>3. ASSUME NEW s \in Session, TakeLock(s) PROVE Robot'
  <2>1. CASE client # "none"
    BY <1>3, <2>1 DEF TakeLock
  <2>2. CASE client = "none"
    BY <1>3, <2>2 DEF TakeLock
  <2> QED BY <2>1, <2>2
<1>4. ASSUME NEW s \in Session, Dial(s) PROVE Robot'
  BY <1>4 DEF Dial
<1>5. ASSUME NEW s \in Session, DialFails(s) PROVE Robot'
  BY <1>5 DEF DialFails
<1>6. ASSUME NEW s \in Session, StartAgent(s) PROVE Robot'
  BY <1>6 DEF StartAgent, robotVars
<1>7. ASSUME NEW s \in Session, Decide(s) PROVE Robot'
  BY <1>7 DEF Decide, robotVars
<1>8. ASSUME NEW s \in Session, MakeStandDown(s) PROVE Robot'
  BY <1>8 DEF MakeStandDown, robotVars
<1>9. ASSUME NEW s \in Session, CloseSession(s) PROVE Robot'
  BY <1>9 DEF CloseSession, robotVars
<1>10. ASSUME NEW s \in Session, Read(s) PROVE Robot'
  BY <1>10 DEF Read, robotVars
<1>11. ASSUME NEW s \in Session, Take(s) PROVE Robot'
  BY <1>11 DEF Take, robotVars
<1>12. ASSUME NEW s \in Session, TaskEnds(s) \/ AgentStops(s) PROVE Robot'
  BY <1>12 DEF TaskEnds, AgentStops, InputStops, robotVars
<1>13. ASSUME BridgeCloses PROVE Robot'
  BY <1>13 DEF BridgeCloses
<1> QED BY <1>1, <1>2, <1>3, <1>4, <1>5, <1>6, <1>7, <1>8, <1>9, <1>10, <1>11, <1>12, <1>13
        DEF HostedNext, Handler

LEMMA RobotStutters == ASSUME Robot, UNCHANGED hostedVars PROVE Robot'
  BY DEF Robot, hostedVars, robotVars

LEMMA RobotAlways == HostedSpec => []Robot
<1>1. ASSUME Robot, [HostedNext]_hostedVars PROVE Robot'
  BY <1>1, RobotStep, RobotStutters
<1> QED BY RobotInit, <1>1, PTL DEF HostedSpec

(* However many sessions begin at once, there is at most one robot client: *)
(* _get_or_connect_client under its lock.                                  *)
THEOREM ServerHasOneClient == HostedSpec => []OneClient
<1>1. Robot => OneClient
  BY DEF Robot, OneClient
<1> QED BY RobotAlways, <1>1, PTL

-----------------------------------------------------------------------------
(* The robot lies down.                                                    *)

LEMMA LeavingInit == HostedInit => Leaving
  BY DEF HostedInit, Leaving, Tasks

LEMMA LeavingStep == ASSUME Robot, Leaving, HostedNext PROVE Leaving'
<1> USE DEF Robot, Labels, Leaving, Tasks, Goto
<1>1. ASSUME NEW s \in Session, Arrive(s) PROVE Leaving'
  BY <1>1 DEF Arrive, robotVars
<1>2. ASSUME NEW s \in Session, SendFrame(s) PROVE Leaving'
  BY <1>2 DEF SendFrame, robotVars
<1>3. ASSUME NEW s \in Session, HangUp(s) PROVE Leaving'
  BY <1>3 DEF HangUp, robotVars
<1>4. ASSUME NEW s \in Session, TakeLock(s) PROVE Leaving'
  <2>1. CASE client # "none"
    BY <1>4, <2>1 DEF TakeLock, wireVars
  <2>2. CASE client = "none"
    BY <1>4, <2>2 DEF TakeLock, wireVars
  <2> QED BY <2>1, <2>2
<1>5. ASSUME NEW s \in Session, Dial(s) PROVE Leaving'
  <2>1. client = "none"
    BY <1>5, HostedAssumption DEF Dial
  <2> QED BY <1>5, <2>1 DEF Dial, wireVars
<1>6. ASSUME NEW s \in Session, DialFails(s) PROVE Leaving'
  BY <1>6 DEF DialFails, wireVars
<1>7. ASSUME NEW s \in Session, StartAgent(s) PROVE Leaving'
  BY <1>7 DEF StartAgent, robotVars, wireVars
<1>8. ASSUME NEW s \in Session, Decide(s) PROVE Leaving'
  <2>1. UNCHANGED <<client, peer, crouched>>
    BY <1>8 DEF Decide, robotVars, wireVars
  <2>2. pc[s] = "waiting" /\ pc' = [pc EXCEPT ![s] = pc'[s]] /\ pc'[s] \in {"ending", "standing"}
    BY <1>8 DEF Decide
  <2>3. agent' = [agent EXCEPT ![s] = IF @ = "running" THEN "cancelling" ELSE @]
    BY <1>8 DEF Decide
  <2>4. pc'[s] = "ending" /\ StandDownOnExit => agent[s] = "failed"
    BY <1>8 DEF Decide
  <2> QED BY <2>1, <2>2, <2>3, <2>4
<1>9. ASSUME NEW s \in Session, MakeStandDown(s) PROVE Leaving'
  BY <1>9 DEF MakeStandDown, robotVars, wireVars
<1>10. ASSUME NEW s \in Session, CloseSession(s) PROVE Leaving'
  BY <1>10 DEF CloseSession, robotVars
<1>11. ASSUME NEW s \in Session, Read(s) PROVE Leaving'
  BY <1>11 DEF Read, robotVars
<1>12. ASSUME NEW s \in Session, Take(s) PROVE Leaving'
  BY <1>12 DEF Take, robotVars, wireVars
<1>13. ASSUME NEW s \in Session, TaskEnds(s) PROVE Leaving'
  <2>1. UNCHANGED <<client, pc, peer, crouched>>
    BY <1>13 DEF TaskEnds, InputStops, robotVars, wireVars
  <2>2. PICK how \in {"ended", "failed"} : agent' = [agent EXCEPT ![s] = how]
    BY <1>13 DEF TaskEnds
  <2>3. agent[s] = "running"
    BY <1>13 DEF TaskEnds
  <2> QED BY <2>1, <2>2, <2>3
<1>14. ASSUME NEW s \in Session, AgentStops(s) PROVE Leaving'
  BY <1>14 DEF AgentStops, InputStops, robotVars, wireVars
<1>15. ASSUME BridgeCloses PROVE Leaving'
  BY <1>15 DEF BridgeCloses, wireVars
<1> QED BY <1>1, <1>2, <1>3, <1>4, <1>5, <1>6, <1>7, <1>8, <1>9, <1>10, <1>11, <1>12, <1>13,
           <1>14, <1>15 DEF HostedNext, Handler

LEMMA LeavingStutters == ASSUME Leaving, UNCHANGED hostedVars PROVE Leaving'
  BY DEF Leaving, hostedVars, robotVars, wireVars

LEMMA LeavingAlways == HostedSpec => []Leaving
<1>1. ASSUME Robot, Leaving, [HostedNext]_hostedVars PROVE Leaving'
  BY <1>1, LeavingStep, LeavingStutters
<1> QED BY LeavingInit, RobotAlways, <1>1, PTL DEF HostedSpec

(* A session that ended because its client went has made the robot lie     *)
(* down, if it is to and the bridge is there: websocket_handler, which     *)
(* does not wait for the agent that it cancelled.                          *)
THEOREM ServerStandsDown == HostedSpec => []StandsDownAfterHangUp
<1>1. Leaving => StandsDownAfterHangUp
  BY DEF Leaving, StandsDownAfterHangUp
<1> QED BY LeavingAlways, <1>1, PTL

-----------------------------------------------------------------------------
(* The frames.                                                             *)

Rising(q) == \A i, j \in 1..Len(q) : i < j => q[i] < q[j]
Before(p, q) == \A i \in 1..Len(p), j \in 1..Len(q) : p[i] < q[j]
Under(S, q) == \A n \in S, i \in 1..Len(q) : n < q[i]
Below(q, n) == \A i \in 1..Len(q) : q[i] < n
Above(q, n) == \A i \in 1..Len(q) : n < q[i]
Older(S, n) == \A m \in S : m < n
Until(q, f) == \A i \in 1..Len(q) : q[i] <= f

(* Along a session's way the numbers rise: what the agent was given (t),   *)
(* what is queued (q), what is on the wire (w); what was lost (l) is older *)
(* than what is queued.                                                    *)
Along(t, q, w, l, f) ==
    /\ Rising(t) /\ Rising(q) /\ Rising(w)
    /\ Before(t, q) /\ Before(t, w) /\ Before(q, w)
    /\ Under(l, q) /\ Under(l, w)
    /\ Until(t, f) /\ Until(q, f) /\ Until(w, f)
    /\ \A n \in l : n <= f

Frame == [kind : Kinds, n : Nat]
Numbers(w) == [i \in 1..Len(w) |-> w[i].n]

FramesOK ==
    /\ wire \in [Session -> Seq(Frame)]
    /\ frames \in Nat
    /\ queue \in [Session -> Seq(Nat)] /\ taken \in [Session -> Seq(Nat)]
    /\ lost \in [Session -> SUBSET Nat]

InLine(s) == Along(taken[s], queue[s], Numbers(wire[s]), lost[s], frames)
Rises == FramesOK /\ \A s \in Session : InLine(s)

(* What Append and Tail do. *)
LEMMA AppendFacts ==
    ASSUME NEW S, NEW q \in Seq(S), NEW e \in S
    PROVE  /\ Append(q, e) \in Seq(S) /\ Len(Append(q, e)) = Len(q) + 1 /\ Len(q) \in Nat
           /\ \A i \in 1..Len(Append(q, e)) :
                 \/ i \in 1..Len(q) /\ Append(q, e)[i] = q[i]
                 \/ i = Len(q) + 1 /\ Append(q, e)[i] = e
<1>1. /\ Append(q, e) \in Seq(S) /\ Len(Append(q, e)) = Len(q) + 1 /\ Len(q) \in Nat
      /\ \A i \in 1..Len(q) : Append(q, e)[i] = q[i]
      /\ Append(q, e)[Len(q) + 1] = e
  OBVIOUS
<1>2. ASSUME NEW i \in 1..Len(Append(q, e)), i # Len(q) + 1 PROVE i \in 1..Len(q)
  BY <1>1, <1>2
<1> QED BY <1>1, <1>2

LEMMA TailFacts ==
    ASSUME NEW S, NEW q \in Seq(S), q # << >>
    PROVE  /\ Tail(q) \in Seq(S) /\ Len(Tail(q)) = Len(q) - 1
           /\ Len(q) \in Nat /\ 1 \in 1..Len(q)
           /\ Head(q) = q[1] /\ Head(q) \in S
           /\ \A i \in 1..Len(Tail(q)) : i + 1 \in 1..Len(q) /\ i \in Nat /\ Tail(q)[i] = q[i + 1]
  OBVIOUS

LEMMA NumbersFacts ==
    ASSUME NEW w \in Seq(Frame)
    PROVE  /\ Numbers(w) \in Seq(Nat) /\ Len(Numbers(w)) = Len(w)
           /\ \A i \in 1..Len(w) : Numbers(w)[i] = w[i].n
<1>1. \A i \in 1..Len(w) : w[i] \in Frame
  OBVIOUS
<1>2. \A i \in 1..Len(w) : w[i].n \in Nat
  BY <1>1 DEF Frame
<1>3. Len(w) \in Nat
  OBVIOUS
<1> QED BY <1>2, <1>3 DEF Numbers

LEMMA NumbersAppend ==
    ASSUME NEW w \in Seq(Frame), NEW frame \in Frame
    PROVE  Numbers(Append(w, frame)) = Append(Numbers(w), frame.n)
<1> DEFINE v == Append(w, frame)  m == Append(Numbers(w), frame.n)
<1>1. /\ v \in Seq(Frame) /\ Len(v) = Len(w) + 1
      /\ \A i \in 1..Len(v) : \/ i \in 1..Len(w) /\ v[i] = w[i]
                              \/ i = Len(w) + 1 /\ v[i] = frame
  BY AppendFacts
<1>2. frame.n \in Nat
  BY DEF Frame
<1>3. /\ m \in Seq(Nat) /\ Len(m) = Len(w) + 1
      /\ \A i \in 1..Len(m) : \/ i \in 1..Len(w) /\ m[i] = w[i].n
                              \/ i = Len(w) + 1 /\ m[i] = frame.n
  BY <1>2, AppendFacts, NumbersFacts
<1>4. /\ Numbers(v) \in Seq(Nat) /\ Len(Numbers(v)) = Len(v)
      /\ \A i \in 1..Len(v) : Numbers(v)[i] = v[i].n
  BY <1>1, NumbersFacts
<1> HIDE DEF v, m
<1>5. Len(w) \in Nat
  OBVIOUS
<1>6. \A i \in 1..Len(v) : Numbers(v)[i] = m[i]
  BY <1>1, <1>3, <1>4, <1>5
<1>7. Numbers(v) = m
  BY <1>1, <1>3, <1>4, <1>6, SeqEqual
<1> QED BY <1>7 DEF v, m

LEMMA NumbersTail ==
    ASSUME NEW w \in Seq(Frame), w # << >>
    PROVE  /\ Numbers(w) # << >> /\ Head(Numbers(w)) = Head(w).n
           /\ Numbers(Tail(w)) = Tail(Numbers(w))
<1> DEFINE v == Tail(w)  m == Tail(Numbers(w))
<1>1. /\ v \in Seq(Frame) /\ Len(v) = Len(w) - 1 /\ 1 \in 1..Len(w) /\ Head(w) = w[1]
      /\ \A i \in 1..Len(v) : i + 1 \in 1..Len(w) /\ i \in Nat /\ v[i] = w[i + 1]
  BY TailFacts
<1>2. /\ Numbers(w) \in Seq(Nat) /\ Len(Numbers(w)) = Len(w)
      /\ \A i \in 1..Len(w) : Numbers(w)[i] = w[i].n
  BY NumbersFacts
<1>3. Numbers(w) # << >>
  BY <1>1, <1>2
<1>4. /\ m \in Seq(Nat) /\ Len(m) = Len(w) - 1 /\ Head(Numbers(w)) = Numbers(w)[1]
      /\ \A i \in 1..Len(m) : m[i] = Numbers(w)[i + 1]
  BY <1>2, <1>3, TailFacts
<1>5. /\ Numbers(v) \in Seq(Nat) /\ Len(Numbers(v)) = Len(v)
      /\ \A i \in 1..Len(v) : Numbers(v)[i] = v[i].n
  BY <1>1, NumbersFacts
<1> HIDE DEF v, m
<1>6. \A i \in 1..Len(v) : Numbers(v)[i] = m[i]
  BY <1>1, <1>2, <1>4, <1>5
<1>7. Numbers(v) = m
  BY <1>1, <1>4, <1>5, <1>6, SeqEqual
<1> QED BY <1>1, <1>2, <1>3, <1>4, <1>7 DEF v, m

-----------------------------------------------------------------------------
(* A number joins a line, or leaves it. *)
LEMMA JoinRising ==
    ASSUME NEW q \in Seq(Nat), NEW n \in Nat, Rising(q), Below(q, n)
    PROVE  Rising(Append(q, n))
<1> DEFINE p == Append(q, n)
<1>1. /\ Len(q) \in Nat /\ Len(p) = Len(q) + 1
      /\ \A i \in 1..Len(p) : \/ i \in 1..Len(q) /\ p[i] = q[i]
                              \/ i = Len(q) + 1 /\ p[i] = n
  BY AppendFacts
<1>2. \A i \in 1..Len(q) : q[i] < n
  BY DEF Below
<1> HIDE DEF p
<1>3. ASSUME NEW i \in 1..Len(p), NEW j \in 1..Len(p), i < j PROVE p[i] < p[j]
  <2>1. i \in 1..Len(q) /\ p[i] = q[i]
    BY <1>1, <1>3
  <2> QED BY <1>1, <1>2, <1>3, <2>1 DEF Rising
<1>4. Rising(p)
  BY <1>3 DEF Rising
<1> QED BY <1>4 DEF p

LEMMA JoinLine ==
    ASSUME NEW p \in Seq(Nat), NEW q \in Seq(Nat), NEW n \in Nat,
           NEW l \in SUBSET Nat, NEW f \in Nat
    PROVE  /\ Before(p, q) /\ Below(p, n) => Before(p, Append(q, n))
           /\ Before(p, q) /\ Above(q, n) => Before(Append(p, n), q)
           /\ Under(l, q) /\ Older(l, n) => Under(l, Append(q, n))
           /\ Until(q, f) /\ n <= f => Until(Append(q, n), f)
<1> DEFINE r == Append(q, n)  o == Append(p, n)
<1>1. \A i \in 1..Len(r) : (i \in 1..Len(q) /\ r[i] = q[i]) \/ r[i] = n
  BY AppendFacts
<1>2. \A i \in 1..Len(o) : (i \in 1..Len(p) /\ o[i] = p[i]) \/ o[i] = n
  BY AppendFacts
<1> HIDE DEF r, o
<1>3. Before(p, q) /\ Below(p, n) => Before(p, r)
  BY <1>1 DEF Before, Below
<1>4. Before(p, q) /\ Above(q, n) => Before(o, q)
  BY <1>2 DEF Before, Above
<1>5. Under(l, q) /\ Older(l, n) => Under(l, r)
  BY <1>1 DEF Under, Older
<1>6. Until(q, f) /\ n <= f => Until(r, f)
  BY <1>1 DEF Until
<1> QED BY <1>3, <1>4, <1>5, <1>6 DEF r, o

LEMMA LeaveLine ==
    ASSUME NEW p \in Seq(Nat), NEW q \in Seq(Nat), q # << >>, NEW l \in SUBSET Nat, NEW f \in Nat
    PROVE  /\ Rising(q) => Rising(Tail(q)) /\ Above(Tail(q), Head(q))
           /\ Before(p, q) => Before(p, Tail(q)) /\ Below(p, Head(q))
           /\ Before(q, p) => Before(Tail(q), p) /\ Above(p, Head(q))
           /\ Under(l, q) => Under(l, Tail(q)) /\ Older(l, Head(q))
           /\ Until(q, f) => Until(Tail(q), f) /\ Head(q) <= f
<1> DEFINE r == Tail(q)  h == Head(q)
<1>1. /\ 1 \in 1..Len(q) /\ h = q[1] /\ h \in Nat /\ Len(r) \in Nat
      /\ \A i \in 1..Len(r) : i + 1 \in 1..Len(q) /\ i \in Nat /\ r[i] = q[i + 1]
  BY TailFacts
<1> HIDE DEF r, h
<1>2. Rising(q) => Rising(r) /\ Above(r, h)
  <2> SUFFICES ASSUME Rising(q) PROVE Rising(r) /\ Above(r, h)
    OBVIOUS
  <2>1. ASSUME NEW i \in 1..Len(r), NEW j \in 1..Len(r), i < j PROVE r[i] < r[j]
    <3>1. i + 1 < j + 1
      BY <1>1, <2>1
    <3> QED BY <1>1, <3>1 DEF Rising
  <2>2. ASSUME NEW i \in 1..Len(r) PROVE h < r[i]
    <3>1. 1 < i + 1
      BY <1>1
    <3> QED BY <1>1, <3>1 DEF Rising
  <2> QED BY <2>1, <2>2 DEF Rising, Above
<1>3. Before(p, q) => Before(p, r) /\ Below(p, h)
  BY <1>1 DEF Before, Below
<1>4. Before(q, p) => Before(r, p) /\ Above(p, h)
  BY <1>1 DEF Before, Above
<1>5. Under(l, q) => Under(l, r) /\ Older(l, h)
  BY <1>1 DEF Under, Older
<1>6. Until(q, f) => Until(r, f) /\ h <= f
  BY <1>1 DEF Until
<1> QED BY <1>2, <1>3, <1>4, <1>5, <1>6 DEF r, h

-----------------------------------------------------------------------------
(* The steps of a session. *)

LEMMA RisesInit == HostedInit => Rises
<1> SUFFICES ASSUME HostedInit PROVE Rises
  OBVIOUS
<1>1. FramesOK
  BY DEF HostedInit, FramesOK
<1>2. ASSUME NEW s \in Session PROVE InLine(s)
  BY DEF HostedInit, InLine, Along, Numbers, Rising, Before, Under, Until
<1> QED BY <1>1, <1>2 DEF Rises

LEMMA RisesElsewhere == ASSUME Rises, UNCHANGED <<wire, frames, queue, taken, lost>> PROVE Rises'
  BY DEF Rises, FramesOK, InLine, Along, Numbers, Rising, Before, Under, Until

LEMMA SendRises == ASSUME Rises, NEW s \in Session, SendFrame(s) PROVE Rises'
<1>1. PICK kind \in Kinds :
          wire' = [wire EXCEPT ![s] = Append(@, [kind |-> kind, n |-> frames'])]
  BY DEF SendFrame
<1> DEFINE frame == [kind |-> kind, n |-> frames']
<1>2. frames' = frames + 1 /\ frames \in Nat /\ UNCHANGED <<queue, taken, lost>>
  BY DEF SendFrame, readVars, Rises, FramesOK
<1>3. frame \in Frame /\ frame.n = frames + 1
  BY <1>2 DEF Frame
<1> HIDE DEF frame
<1>4. wire \in [Session -> Seq(Frame)] /\ wire' = [wire EXCEPT ![s] = Append(wire[s], frame)]
  BY <1>1 DEF frame, Rises, FramesOK
<1>5. Append(wire[s], frame) \in Seq(Frame)
  BY <1>3, <1>4
<1>6. FramesOK'
  <2>1. wire' \in [Session -> Seq(Frame)]
    BY <1>4, <1>5
  <2>2. frames' \in Nat
    BY <1>2
  <2> QED BY <1>2, <2>1, <2>2 DEF Rises, FramesOK
<1>7. ASSUME NEW t \in Session PROVE InLine(t)'
  <2> DEFINE w == Numbers(wire[t])
  <2>1. /\ taken[t] \in Seq(Nat) /\ queue[t] \in Seq(Nat) /\ lost[t] \in SUBSET Nat
        /\ w \in Seq(Nat) /\ Along(taken[t], queue[t], w, lost[t], frames)
    BY <1>4, NumbersFacts DEF Rises, FramesOK, InLine
  <2> HIDE DEF w
  <2>2. /\ Until(taken[t], frames + 1) /\ Until(queue[t], frames + 1) /\ Until(w, frames + 1)
        /\ \A n \in lost[t] : n <= frames + 1
    BY <1>2, <2>1 DEF Along, Until
  <2>3. Along(taken[t], queue[t], w, lost[t], frames + 1)
    BY <2>1, <2>2 DEF Along
  <2>4. CASE t # s
    <3>1. wire'[t] = wire[t]
      BY <1>4, <2>4
    <3> QED BY <1>2, <2>3, <3>1 DEF InLine, w
  <2>5. CASE t = s
    <3>1. Numbers(wire'[s]) = Append(w, frames + 1)
      BY <1>3, <1>4, <2>5, NumbersAppend DEF w
    <3>2. /\ Below(w, frames + 1) /\ Below(queue[s], frames + 1)
          /\ Below(taken[s], frames + 1) /\ Older(lost[s], frames + 1)
      BY <1>2, <2>1, <2>5 DEF Along, Below, Older, Until
    <3>3. Rising(Append(w, frames + 1))
      BY <1>2, <2>1, <3>2, JoinRising DEF Along
    <3>4. /\ Before(queue[s], Append(w, frames + 1)) /\ Before(taken[s], Append(w, frames + 1))
          /\ Under(lost[s], Append(w, frames + 1)) /\ Until(Append(w, frames + 1), frames + 1)
      <4> DEFINE n == frames + 1
      <4>1. n \in Nat /\ n <= n
        BY <1>2
      <4> HIDE DEF n
      <4>2. Below(queue[s], n) /\ Below(taken[s], n) /\ Older(lost[s], n)
            /\ Until(w, n)
        BY <2>2, <3>2 DEF n
      <4>3. /\ Before(queue[s], Append(w, n)) /\ Before(taken[s], Append(w, n))
            /\ Under(lost[s], Append(w, n)) /\ Until(Append(w, n), n)
        BY <2>1, <2>5, <4>1, <4>2, JoinLine DEF Along
      <4> QED BY <4>3 DEF n
    <3>5. Along(taken[s], queue[s], Append(w, frames + 1), lost[s], frames + 1)
      BY <2>3, <2>5, <3>3, <3>4 DEF Along
    <3> QED BY <1>2, <2>5, <3>1, <3>5 DEF InLine
  <2> QED BY <2>4, <2>5
<1> QED BY <1>6, <1>7 DEF Rises

(* A frame leaves the wire. *)
LEMMA OffTheWire ==
    ASSUME NEW t \in Seq(Nat), NEW q \in Seq(Nat), NEW w \in Seq(Nat), NEW l \in SUBSET Nat,
           NEW f \in Nat, Along(t, q, w, l, f), w # << >>
    PROVE  /\ Along(t, q, Tail(w), l, f)
           /\ Below(t, Head(w)) /\ Below(q, Head(w)) /\ Older(l, Head(w))
           /\ Above(Tail(w), Head(w)) /\ Head(w) <= f /\ Head(w) \in Nat /\ Tail(w) \in Seq(Nat)
<1>1. Head(w) \in Nat /\ Tail(w) \in Seq(Nat)
  BY TailFacts
<1>2. Rising(Tail(w)) /\ Above(Tail(w), Head(w)) /\ Until(Tail(w), f) /\ Head(w) <= f
  BY LeaveLine DEF Along
<1>3. Before(t, Tail(w)) /\ Below(t, Head(w)) /\ Before(q, Tail(w)) /\ Below(q, Head(w))
  BY LeaveLine DEF Along
<1>4. Under(l, Tail(w)) /\ Older(l, Head(w))
  BY LeaveLine DEF Along
<1> QED BY <1>1, <1>2, <1>3, <1>4 DEF Along

(* A number that is above all that went before joins the queue. *)
LEMMA OntoTheQueue ==
    ASSUME NEW t \in Seq(Nat), NEW q \in Seq(Nat), NEW w \in Seq(Nat), NEW l \in SUBSET Nat,
           NEW f \in Nat, NEW n \in Nat, Along(t, q, w, l, f), n <= f,
           Below(t, n), Below(q, n), Older(l, n), Above(w, n)
    PROVE  Along(t, Append(q, n), w, l, f)
<1>1. Rising(Append(q, n))
  BY JoinRising DEF Along
<1>2. Before(t, Append(q, n)) /\ Until(Append(q, n), f) /\ Under(l, Append(q, n))
  BY JoinLine DEF Along
<1>3. Before(Append(q, n), w)
  BY JoinLine DEF Along
<1> QED BY <1>1, <1>2, <1>3 DEF Along

(* The oldest leaves it: it is lost, or the agent takes it. *)
LEMMA OffTheQueue ==
    ASSUME NEW t \in Seq(Nat), NEW q \in Seq(Nat), NEW w \in Seq(Nat), NEW l \in SUBSET Nat,
           NEW f \in Nat, Along(t, q, w, l, f), q # << >>
    PROVE  /\ Along(t, Tail(q), w, l \cup {Head(q)}, f)
           /\ Along(Append(t, Head(q)), Tail(q), w, l, f)
           /\ Head(q) \in Nat /\ Tail(q) \in Seq(Nat)
           /\ \A n \in Nat : Below(q, n) => Head(q) < n /\ Below(Tail(q), n)
<1> DEFINE r == Tail(q)  h == Head(q)
<1>1. h \in Nat /\ r \in Seq(Nat)
  BY TailFacts
<1>2. Rising(r) /\ Above(r, h) /\ Until(r, f) /\ h <= f
  BY LeaveLine DEF Along
<1>3. Before(t, r) /\ Below(t, h) /\ Before(r, w) /\ Above(w, h)
  BY LeaveLine DEF Along
<1>4. Under(l, r) /\ Older(l, h)
  BY LeaveLine DEF Along
<1>5. \A n \in Nat : Below(q, n) => h < n /\ Below(r, n)
  <2>1. /\ 1 \in 1..Len(q) /\ h = q[1]
        /\ \A i \in 1..Len(r) : i + 1 \in 1..Len(q) /\ i \in Nat /\ r[i] = q[i + 1]
    BY TailFacts
  <2> HIDE DEF r, h
  <2> QED BY <2>1 DEF Below
<1> HIDE DEF r, h
<1>6. Along(t, r, w, l, f)
  BY <1>2, <1>3, <1>4 DEF Along
<1>7. Along(t, r, w, l \cup {h}, f)
  <2>1. Under(l \cup {h}, r) /\ Under(l \cup {h}, w) /\ \A n \in l \cup {h} : n <= f
    BY <1>2, <1>3, <1>6 DEF Along, Under, Above
  <2> QED BY <1>6, <2>1 DEF Along
<1>8. Along(Append(t, h), r, w, l, f)
  <2>1. Rising(Append(t, h))
    BY <1>1, <1>3, <1>6, JoinRising DEF Along
  <2>2. Before(Append(t, h), r) /\ Before(Append(t, h), w) /\ Until(Append(t, h), f)
    BY <1>1, <1>2, <1>3, <1>6, JoinLine DEF Along
  <2> QED BY <1>6, <2>1, <2>2 DEF Along
<1> QED BY <1>1, <1>5, <1>7, <1>8 DEF r, h

(* One session steps, the others stay. *)
LEMMA RisesHere ==
    ASSUME Rises, FramesOK', UNCHANGED frames, NEW s \in Session, InLine(s)',
           \A t \in Session \ {s} : /\ wire'[t] = wire[t] /\ queue'[t] = queue[t]
                                    /\ taken'[t] = taken[t] /\ lost'[t] = lost[t]
    PROVE  Rises'
<1>1. ASSUME NEW t \in Session, t # s PROVE InLine(t)'
  <2>1. InLine(t) /\ wire'[t] = wire[t] /\ queue'[t] = queue[t]
        /\ taken'[t] = taken[t] /\ lost'[t] = lost[t]
    BY <1>1 DEF Rises
  <2> QED BY <2>1 DEF InLine
<1> QED BY <1>1 DEF Rises

LEMMA ReadRises == ASSUME Rises, NEW s \in Session, Read(s) PROVE Rises'
<1> DEFINE w == Numbers(wire[s])  q == queue[s]  t == taken[s]  l == lost[s]
<1>1. /\ wire \in [Session -> Seq(Frame)] /\ queue \in [Session -> Seq(Nat)]
      /\ taken \in [Session -> Seq(Nat)] /\ lost \in [Session -> SUBSET Nat] /\ frames \in Nat
      /\ UNCHANGED <<frames, taken>>
  BY DEF Rises, FramesOK, Read
<1>2. CASE wire[s] = << >>
  BY <1>2, RisesElsewhere DEF Read
<1>3. CASE wire[s] # << >>
  <2> DEFINE frame == Head(wire[s])  n == Head(w)
  <2>1. /\ wire[s] \in Seq(Frame) /\ w \in Seq(Nat) /\ t \in Seq(Nat) /\ q \in Seq(Nat)
        /\ l \in SUBSET Nat /\ Along(t, q, w, l, frames)
    BY <1>1, NumbersFacts DEF Rises, InLine
  <2>2. w # << >> /\ n = frame.n /\ Numbers(Tail(wire[s])) = Tail(w) /\ Tail(wire[s]) \in Seq(Frame)
    BY <1>3, <2>1, NumbersTail, TailFacts
  <2>3. wire' = [wire EXCEPT ![s] = Tail(wire[s])]
    BY <1>1, <1>3 DEF Read
  <2>4. wire' \in [Session -> Seq(Frame)] /\ wire'[s] = Tail(wire[s])
    BY <1>1, <2>2, <2>3
  <2>5. IF frame.kind = "input" THEN Enqueue(s, frame) ELSE UNCHANGED <<queue, lost>>
    BY <1>3 DEF Read
  <2> HIDE DEF w, frame, n
  <2>6. /\ Along(t, q, Tail(w), l, frames)
        /\ Below(t, n) /\ Below(q, n) /\ Older(l, n)
        /\ Above(Tail(w), n) /\ n <= frames /\ n \in Nat /\ Tail(w) \in Seq(Nat)
    BY <1>1, <2>1, <2>2, OffTheWire DEF n
  <2>7. CASE UNCHANGED <<queue, lost>>
    <3>1. FramesOK' /\ InLine(s)'
      BY <1>1, <2>2, <2>4, <2>6, <2>7 DEF FramesOK, InLine
    <3> QED BY <1>1, <2>3, <2>7, <3>1, RisesHere
  <2>8. CASE Len(q) < QueueSize /\ queue' = [queue EXCEPT ![s] = Append(q, n)] /\ UNCHANGED lost
    <3>1. Along(t, Append(q, n), Tail(w), l, frames)
      BY <1>1, <2>1, <2>6, OntoTheQueue
    <3>2. Append(q, n) \in Seq(Nat)
      BY <2>1, <2>6
    <3>3. queue' \in [Session -> Seq(Nat)] /\ queue'[s] = Append(q, n)
      BY <1>1, <2>8, <3>2
    <3>4. FramesOK' /\ InLine(s)'
      BY <1>1, <2>2, <2>4, <2>8, <3>1, <3>3 DEF FramesOK, InLine
    <3> QED BY <1>1, <2>3, <2>8, <3>4, RisesHere
  <2>9. CASE /\ ~(Len(q) < QueueSize) /\ queue' = [queue EXCEPT ![s] = Append(Tail(q), n)]
             /\ lost' = [lost EXCEPT ![s] = l \cup {Head(q)}]
    <3>1. q # << >>
      BY <2>1, <2>9, HostedAssumption
    <3>2. /\ Along(t, Tail(q), Tail(w), l \cup {Head(q)}, frames)
          /\ Head(q) \in Nat /\ Tail(q) \in Seq(Nat) /\ Head(q) < n /\ Below(Tail(q), n)
      BY <1>1, <2>1, <2>6, <3>1, OffTheQueue
    <3>3. Older(l \cup {Head(q)}, n) /\ l \cup {Head(q)} \in SUBSET Nat
      BY <2>1, <2>6, <3>2 DEF Older
    <3>4. Along(t, Append(Tail(q), n), Tail(w), l \cup {Head(q)}, frames)
      <4> DEFINE r == Tail(q)  k == l \cup {Head(q)}  v == Tail(w)
      <4>1. /\ Along(t, r, v, k, frames) /\ r \in Seq(Nat) /\ k \in SUBSET Nat /\ v \in Seq(Nat)
            /\ Below(r, n) /\ Older(k, n) /\ Above(v, n)
        BY <2>6, <3>2, <3>3
      <4> HIDE DEF r, k, v
      <4>2. Along(t, Append(r, n), v, k, frames)
        BY <1>1, <2>1, <2>6, <4>1, OntoTheQueue
      <4> QED BY <4>2 DEF r, k, v
    <3>5. Append(Tail(q), n) \in Seq(Nat)
      BY <2>6, <3>2
    <3>6. queue' \in [Session -> Seq(Nat)] /\ queue'[s] = Append(Tail(q), n)
      BY <1>1, <2>9, <3>5
    <3>7. lost' \in [Session -> SUBSET Nat] /\ lost'[s] = l \cup {Head(q)}
      BY <1>1, <2>9, <3>3
    <3>8. FramesOK' /\ InLine(s)'
      BY <1>1, <2>2, <2>4, <3>4, <3>6, <3>7 DEF FramesOK, InLine
    <3> QED BY <1>1, <2>3, <2>9, <3>8, RisesHere
  <2> QED BY <2>2, <2>5, <2>7, <2>8, <2>9 DEF Enqueue
<1> QED BY <1>2, <1>3

LEMMA TakeRises == ASSUME Rises, NEW s \in Session, Take(s) PROVE Rises'
<1> DEFINE q == queue[s]  t == taken[s]
<1>1. /\ wire \in [Session -> Seq(Frame)] /\ queue \in [Session -> Seq(Nat)]
      /\ taken \in [Session -> Seq(Nat)] /\ lost \in [Session -> SUBSET Nat] /\ frames \in Nat
      /\ UNCHANGED <<wire, frames, lost>>
      /\ queue' = [queue EXCEPT ![s] = Tail(q)] /\ taken' = [taken EXCEPT ![s] = Append(t, Head(q))]
  BY DEF Rises, FramesOK, Take, wireVars
<1>2. q # << >>
  BY DEF Take
<1>3. /\ Numbers(wire[s]) \in Seq(Nat) /\ t \in Seq(Nat) /\ q \in Seq(Nat)
      /\ lost[s] \in SUBSET Nat /\ Along(t, q, Numbers(wire[s]), lost[s], frames)
  BY <1>1, NumbersFacts DEF Rises, InLine
<1>4. /\ Along(Append(t, Head(q)), Tail(q), Numbers(wire[s]), lost[s], frames)
      /\ Head(q) \in Nat /\ Tail(q) \in Seq(Nat)
  BY <1>1, <1>2, <1>3, OffTheQueue
<1>5. Append(t, Head(q)) \in Seq(Nat)
  BY <1>3, <1>4
<1>6. /\ queue' \in [Session -> Seq(Nat)] /\ queue'[s] = Tail(q)
      /\ taken' \in [Session -> Seq(Nat)] /\ taken'[s] = Append(t, Head(q))
  BY <1>1, <1>4, <1>5
<1>7. FramesOK' /\ InLine(s)'
  BY <1>1, <1>4, <1>6 DEF FramesOK, InLine
<1> QED BY <1>1, <1>7, RisesHere

LEMMA RisesStep == ASSUME Rises, HostedNext PROVE Rises'
<1>1. ASSUME NEW s \in Session,
             Arrive(s) \/ HangUp(s) \/ Handler(s) \/ TaskEnds(s) \/ AgentStops(s)
      PROVE  Rises'
  BY <1>1, RisesElsewhere
     DEF Arrive, HangUp, Handler, TakeLock, Dial, DialFails, StartAgent, Decide, MakeStandDown,
         CloseSession, TaskEnds, AgentStops, InputStops, readVars, wireVars
<1>2. ASSUME BridgeCloses PROVE Rises'
  BY <1>2, RisesElsewhere DEF BridgeCloses, readVars, wireVars
<1> QED BY <1>1, <1>2, SendRises, ReadRises, TakeRises DEF HostedNext

LEMMA RisesAlways == HostedSpec => []Rises
<1>1. ASSUME Rises, [HostedNext]_hostedVars PROVE Rises'
  BY <1>1, RisesStep, RisesElsewhere DEF hostedVars, readVars, wireVars
<1> QED BY RisesInit, <1>1, PTL DEF HostedSpec

(* The agent is given a session's frames in the order they were sent, and  *)
(* what a full queue loses is older than all it keeps: _read_loop and      *)
(* WebSocketInput.__call__.                                                *)
THEOREM ServerKeepsTheFreshest == HostedSpec => []FreshestKept
<1>1. ASSUME Rises, NEW s \in Session
      PROVE  LET given == taken[s] \o queue[s] IN
             /\ \A i, j \in 1..Len(given) : i < j => given[i] < given[j]
             /\ \A n \in lost[s], i \in 1..Len(queue[s]) : n < queue[s][i]
  <2> DEFINE t == taken[s]  q == queue[s]  given == t \o q
  <2>1. /\ t \in Seq(Nat) /\ q \in Seq(Nat) /\ Len(t) \in Nat /\ Len(q) \in Nat
        /\ Rising(t) /\ Rising(q) /\ Before(t, q) /\ Under(lost[s], q)
    BY <1>1 DEF Rises, FramesOK, InLine, Along
  <2>2. /\ Len(given) = Len(t) + Len(q)
        /\ \A i \in 1..Len(given) : given[i] = IF i <= Len(t) THEN t[i] ELSE q[i - Len(t)]
    BY <2>1, ConcatProperties
  <2> HIDE DEF t, q, given
  <2>3. ASSUME NEW i \in 1..Len(given), NEW j \in 1..Len(given), i < j PROVE given[i] < given[j]
    <3>1. CASE j <= Len(t)
      <4>1. i \in 1..Len(t) /\ j \in 1..Len(t) /\ given[i] = t[i] /\ given[j] = t[j]
        BY <2>1, <2>2, <2>3, <3>1
      <4> QED BY <2>1, <2>3, <4>1 DEF Rising
    <3>2. CASE i <= Len(t) /\ j > Len(t)
      <4>1. i \in 1..Len(t) /\ j - Len(t) \in 1..Len(q)
        BY <2>1, <2>2, <2>3, <3>2
      <4>2. given[i] = t[i] /\ given[j] = q[j - Len(t)]
        BY <2>1, <2>2, <2>3, <3>2
      <4> QED BY <2>1, <4>1, <4>2 DEF Before
    <3>3. CASE i > Len(t)
      <4>1. i - Len(t) \in 1..Len(q) /\ j - Len(t) \in 1..Len(q) /\ i - Len(t) < j - Len(t)
        BY <2>1, <2>2, <2>3, <3>3
      <4>2. given[i] = q[i - Len(t)] /\ given[j] = q[j - Len(t)]
        BY <2>1, <2>2, <2>3, <3>3
      <4> QED BY <2>1, <4>1, <4>2 DEF Rising
    <3> QED BY <2>1, <2>2, <2>3, <3>1, <3>2, <3>3
  <2> QED BY <2>1, <2>3 DEF Under, t, q, given
<1>2. Rises => FreshestKept
  BY <1>1 DEF FreshestKept
<1> QED BY RisesAlways, <1>2, PTL

-----------------------------------------------------------------------------
(* The terminal client.                                                    *)

ClientSpec == ThinInit /\ [][ThinNext]_clientVars

Sound == [kind : {"audio", "interruption"}, answer : Nat]

(* What is on its way belongs to answers that the client was not told are  *)
(* interrupted, and behind the word of an interruption to later answers.   *)
Downlink(q) ==
    /\ \A i \in 1..Len(q) : interrupted < q[i].answer /\ q[i].answer <= answer
    /\ \A i \in 1..Len(q) : q[i].kind = "interruption" => q[i].answer < answer
    /\ \A i, j \in 1..Len(q) : i < j /\ q[i].kind = "interruption" => q[i].answer < q[j].answer

Playing ==
    /\ answer \in Nat /\ interrupted \in Nat /\ interrupted < answer
    /\ downlink \in Seq(Sound) /\ Downlink(downlink)
    /\ buf \in Seq(Nat) /\ \A i \in 1..Len(buf) : buf[i] > interrupted

LEMMA PlayingInit == ThinInit => Playing
<1> SUFFICES ASSUME ThinInit PROVE Playing
  OBVIOUS
<1>1. downlink = << >> /\ buf = << >> /\ answer = 1 /\ interrupted = 0
  BY DEF ThinInit
<1> QED BY <1>1 DEF Playing, Downlink

LEMMA PlayingElsewhere ==
    ASSUME Playing, UNCHANGED <<answer, interrupted, downlink, buf>> PROVE Playing'
  BY DEF Playing, Downlink

(* The server puts a frame behind the others. *)
LEMMA FrameSent ==
    ASSUME Playing, NEW frame \in Sound, answer' \in Nat, answer <= answer',
           downlink' = Append(downlink, frame), UNCHANGED <<interrupted, buf>>,
           frame.answer = answer, frame.kind = "interruption" => answer < answer'
    PROVE  Playing'
<1>1. \A i \in 1..Len(downlink) : downlink[i] \in Sound
  BY DEF Playing
<1>2. \A i \in 1..Len(downlink) : downlink[i].answer \in Nat
  BY <1>1 DEF Sound
<1>3. answer \in Nat /\ interrupted \in Nat /\ interrupted < answer
  BY DEF Playing
<1>4. /\ downlink' \in Seq(Sound) /\ Len(downlink') = Len(downlink) + 1 /\ Len(downlink) \in Nat
      /\ \A i \in 1..Len(downlink') :
            \/ i \in 1..Len(downlink) /\ downlink'[i] = downlink[i]
            \/ i = Len(downlink) + 1 /\ downlink'[i] = frame
  BY AppendFacts DEF Playing
<1>5. ASSUME NEW i \in 1..Len(downlink')
      PROVE  /\ interrupted < downlink'[i].answer /\ downlink'[i].answer <= answer'
             /\ downlink'[i].kind = "interruption" => downlink'[i].answer < answer'
  <2>1. CASE i \in 1..Len(downlink) /\ downlink'[i] = downlink[i]
    <3>1. /\ interrupted < downlink[i].answer /\ downlink[i].answer <= answer
          /\ downlink[i].kind = "interruption" => downlink[i].answer < answer
      BY <2>1 DEF Playing, Downlink
    <3> QED BY <1>2, <1>3, <2>1, <3>1
  <2>2. CASE i = Len(downlink) + 1 /\ downlink'[i] = frame
    BY <1>3, <2>2
  <2> QED BY <1>4, <2>1, <2>2
<1>6. ASSUME NEW i \in 1..Len(downlink'), NEW j \in 1..Len(downlink'),
             i < j, downlink'[i].kind = "interruption"
      PROVE  downlink'[i].answer < downlink'[j].answer
  <2>1. i \in 1..Len(downlink) /\ downlink'[i] = downlink[i]
    BY <1>4, <1>6
  <2>2. downlink[i].answer < answer
    BY <1>6, <2>1 DEF Playing, Downlink
  <2>3. CASE j = Len(downlink) + 1 /\ downlink'[j] = frame
    BY <2>1, <2>2, <2>3
  <2>4. CASE j \in 1..Len(downlink) /\ downlink'[j] = downlink[j]
    BY <1>6, <2>1, <2>4 DEF Playing, Downlink
  <2> QED BY <1>4, <2>3, <2>4
<1>7. Downlink(downlink)'
  BY <1>3, <1>5, <1>6 DEF Downlink
<1>8. interrupted' < answer'
  BY <1>3
<1> QED BY <1>3, <1>4, <1>7, <1>8 DEF Playing

LEMMA FrameHandled == ASSUME Playing, PumpServer PROVE Playing'
<1>1. CASE downlink = << >>
  BY <1>1, PlayingElsewhere DEF PumpServer
<1>2. CASE downlink # << >>
  <2> DEFINE frame == Head(downlink)
  <2>1. downlink' = Tail(downlink) /\ UNCHANGED answer /\ Handle(frame)
    BY <1>2 DEF PumpServer
  <2>2. /\ downlink' \in Seq(Sound) /\ 1 \in 1..Len(downlink)
        /\ frame = downlink[1] /\ frame \in Sound
        /\ \A i \in 1..Len(downlink') : /\ i + 1 \in 1..Len(downlink) /\ i \in Nat
                                        /\ downlink'[i] = downlink[i + 1]
    BY <1>2, <2>1, TailFacts DEF Playing
  <2> HIDE DEF frame
  <2>3. \A i \in 1..Len(downlink') :
            /\ interrupted < downlink'[i].answer /\ downlink'[i].answer <= answer
            /\ downlink'[i].kind = "interruption" => downlink'[i].answer < answer
    BY <2>2 DEF Playing, Downlink
  <2>4. ASSUME NEW i \in 1..Len(downlink'), NEW j \in 1..Len(downlink'),
               i < j, downlink'[i].kind = "interruption"
        PROVE  downlink'[i].answer < downlink'[j].answer
    <3>1. i + 1 < j + 1
      BY <2>2, <2>4
    <3> QED BY <2>2, <2>4, <3>1 DEF Playing, Downlink
  <2>5. /\ interrupted < frame.answer /\ frame.answer \in Nat
        /\ frame.kind = "interruption" => frame.answer < answer
    BY <2>2 DEF Playing, Downlink, Sound
  <2>6. CASE frame.kind = "audio"
    <3>1. buf' = Append(buf, frame.answer) /\ UNCHANGED interrupted
      BY <2>1, <2>6 DEF Handle
    <3>2. /\ buf' \in Seq(Nat)
          /\ \A i \in 1..Len(buf') : \/ i \in 1..Len(buf) /\ buf'[i] = buf[i]
                                     \/ buf'[i] = frame.answer
      BY <2>5, <3>1, AppendFacts DEF Playing
    <3>3. \A i \in 1..Len(buf') : buf'[i] > interrupted'
      BY <2>5, <3>1, <3>2 DEF Playing
    <3>4. Downlink(downlink)'
      BY <2>1, <2>3, <2>4, <3>1 DEF Downlink
    <3> QED BY <2>1, <2>2, <3>1, <3>2, <3>3, <3>4 DEF Playing
  <2>7. CASE frame.kind # "audio"
    <3>1. buf' = << >> /\ interrupted' = frame.answer /\ frame.kind = "interruption"
      BY <2>1, <2>2, <2>7 DEF Handle, Sound
    <3>2. \A i \in 1..Len(downlink') : frame.answer < downlink'[i].answer
      <4> TAKE i \in 1..Len(downlink')
      <4>1. 1 < i + 1
        BY <2>2
      <4> QED BY <2>2, <3>1, <4>1 DEF Playing, Downlink
    <3>3. Downlink(downlink)'
      BY <2>1, <2>3, <2>4, <3>1, <3>2 DEF Downlink
    <3>4. buf' \in Seq(Nat) /\ \A i \in 1..Len(buf') : buf'[i] > interrupted'
      BY <3>1
    <3>5. interrupted' < answer'
      BY <2>1, <2>5, <3>1
    <3> QED BY <2>1, <2>2, <2>5, <3>1, <3>3, <3>4, <3>5 DEF Playing
  <2> QED BY <2>6, <2>7
<1> QED BY <1>1, <1>2

LEMMA PlayingStep == ASSUME Playing, ThinNext PROVE Playing'
<1>1. CASE ServerSpeaks
  <2>1. [kind |-> "audio", answer |-> answer] \in Sound /\ answer \in Nat
    BY DEF Sound, Playing
  <2> QED BY <1>1, <2>1, FrameSent DEF ServerSpeaks
<1>2. CASE ServerInterrupted
  <2>1. [kind |-> "interruption", answer |-> answer] \in Sound /\ answer \in Nat
    BY DEF Sound, Playing
  <2> QED BY <1>2, <2>1, FrameSent DEF ServerInterrupted
<1>3. CASE DeleteChunk
  <2>1. CASE buf = << >>
    BY <1>3, <2>1, PlayingElsewhere DEF DeleteChunk
  <2>2. CASE buf # << >>
    <3>1. buf' = Tail(buf) /\ UNCHANGED <<answer, interrupted, downlink>>
      BY <1>3, <2>2 DEF DeleteChunk
    <3>2. /\ buf' \in Seq(Nat)
          /\ \A i \in 1..Len(buf') : i + 1 \in 1..Len(buf) /\ buf'[i] = buf[i + 1]
      BY <2>2, <3>1, TailFacts DEF Playing
    <3> QED BY <3>1, <3>2 DEF Playing, Downlink
  <2> QED BY <2>1, <2>2
<1>4. ASSUME Open \/ OpenFails \/ ConnectionGoes \/ (\E p \in Pumps : PumpRaises(p))
             \/ CopyChunk \/ APumpEnds \/ Quit \/ CloseUp
      PROVE  Playing'
  BY <1>4, PlayingElsewhere
     DEF Open, OpenFails, ConnectionGoes, PumpRaises, CopyChunk, APumpEnds, Quit, CloseUp
<1>5. ASSUME UNCHANGED thinVars PROVE Playing'
  BY <1>5, PlayingElsewhere DEF thinVars
<1> QED BY <1>1, <1>2, <1>3, <1>4, <1>5, FrameHandled DEF ThinNext, ThinStep

(* When the user has interrupted an answer, nothing of it is left to be    *)
(* played but the chunk the audio thread already had: _pump_server with    *)
(* Speaker.play and Speaker.clear.                                         *)
THEOREM ClientHeedsBargeIn == ClientSpec => []BargeIn
<1>1. ASSUME Playing, [ThinNext]_clientVars PROVE Playing'
  BY <1>1, PlayingStep, PlayingElsewhere DEF clientVars, thinVars
<1>2. Playing => BargeIn
  BY DEF Playing, BargeIn
<1> QED BY PlayingInit, <1>1, <1>2, PTL DEF ClientSpec
=============================================================================
