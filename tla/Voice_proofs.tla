---------------------------- MODULE Voice_proofs ----------------------------
(***************************************************************************)
(* The local voice session: the robot is told to lie down, what the        *)
(* behaviours announce is told in order, and an utterance begins fresh.    *)
(* For any number of behaviours, events, chunks and presses of SPACE and   *)
(* any size of the queues.                                                 *)
(***************************************************************************)
EXTENDS VoiceSession, SequenceTheorems, FiniteSetTheorems, TLAPS

-----------------------------------------------------------------------------
(* The way out.                                                            *)

(* Until the link is closed it is up or lost; the session waits in         *)
(* stand_down only once it has published it; the first Ctrl-C is the one   *)
(* that ends the agent.                                                    *)
Life ==
    /\ phase = "connecting" => link = "none" /\ ~looping
    /\ phase \in {"connecting", "running"} => interrupts = 0
    /\ phase \in {"running", "leaving"} => link \in {"up", "lost"}
    /\ phase = "standing" => stood /\ (sent = "StandDown" \/ looping)
    /\ phase \in {"connecting", "running", "leaving", "standing", "left"}

LifeInv == Life /\ StandsDown

LEMMA LifeInit == Init => LifeInv
  BY DEF Init, LifeInv, Life, StandsDown

LEMMA LifeElsewhere == ASSUME LifeInv, UNCHANGED lifeVars PROVE LifeInv'
  BY DEF LifeInv, Life, StandsDown, lifeVars

LEMMA LifeStep == ASSUME LifeInv, LifeNext PROVE LifeInv'
<1> USE DEF LifeInv, Life, StandsDown
<1>1. CASE Connected
  BY <1>1 DEF Connected
<1>2. CASE ConnectFails
  BY <1>2 DEF ConnectFails
<1>3. CASE Interrupt
  BY <1>3 DEF Interrupt
<1>4. CASE AgentEnds
  BY <1>4 DEF AgentEnds
<1>5. CASE StartBehaviour
  BY <1>5 DEF StartBehaviour
<1>6. CASE LoopPublishes
  BY <1>6 DEF LoopPublishes
<1>7. CASE LinkLost
  BY <1>7 DEF LinkLost
<1>8. CASE InterruptAgain
  BY <1>8 DEF InterruptAgain
<1>9. CASE StandDown
  BY <1>9 DEF StandDown
<1>10. CASE Disconnect
  BY <1>10 DEF Disconnect
<1> QED BY <1>1, <1>2, <1>3, <1>4, <1>5, <1>6, <1>7, <1>8, <1>9, <1>10 DEF LifeNext, LeaveStep

(* A session that lost neither its link nor, by a second Ctrl-C, its       *)
(* process has told the robot to lie down before it is over: run_agent's   *)
(* finally.                                                                *)
THEOREM SessionStandsDown == Spec => []StandsDown
<1>1. ASSUME LifeInv, [Next]_vars PROVE LifeInv'
  <2>1. CASE LifeNext
    BY <1>1, <2>1, LifeStep
  <2>2. CASE UNCHANGED lifeVars
    BY <1>1, <2>2, LifeElsewhere
  <2> QED BY <1>1, <2>1, <2>2
          DEF Next, vars, Living, Typing, Voice, NoVoice, Announcing, Notifying
<1>2. LifeInv => StandsDown
  BY DEF LifeInv
<1> QED BY LifeInit, <1>1, <1>2, PTL DEF Spec

-----------------------------------------------------------------------------
(* What the behaviours announce.                                           *)

(* What Append and Tail do. *)
LEMMA AppendFacts ==
    ASSUME NEW S, NEW q \in Seq(S), NEW e \in S
    PROVE  /\ Append(q, e) \in Seq(S) /\ Len(Append(q, e)) = Len(q) + 1 /\ Len(q) \in Nat
           /\ \A i \in 1..Len(Append(q, e)) :
                 \/ i \in 1..Len(q) /\ Append(q, e)[i] = q[i]
                 \/ i = Len(q) + 1 /\ Append(q, e)[i] = e
<1>1. /\ Append(q, e) \in Seq(S) /\ Len(Append(q, e)) = Len(q) + 1 /\ Len(q) \in Nat
      /\ \A i \in 1..Len(q) : Append(q, e)[i] = q[i]
      /\ Append(q, e)[Len(q) + 1] = e
  OBVIOUS
<1>2. ASSUME NEW i \in 1..Len(Append(q, e)), i # Len(q) + 1 PROVE i \in 1..Len(q)
  BY <1>1, <1>2
<1> QED BY <1>1, <1>2

LEMMA TailFacts ==
    ASSUME NEW S, NEW q \in Seq(S), q # << >>
    PROVE  /\ Tail(q) \in Seq(S) /\ Len(Tail(q)) = Len(q) - 1
           /\ Len(q) \in Nat /\ 1 \in 1..Len(q)
           /\ Head(q) = q[1] /\ Head(q) \in S
           /\ \A i \in 1..Len(Tail(q)) : i + 1 \in 1..Len(q) /\ i \in Nat /\ Tail(q)[i] = q[i + 1]
  OBVIOUS

(* An element behind two sequences. *)
LEMMA ConcatAppend ==
    ASSUME NEW S, NEW p \in Seq(S), NEW q \in Seq(S), NEW e \in S
    PROVE  p \o Append(q, e) = Append(p \o q, e)
<1>1. p \o q \in Seq(S) /\ Append(q, e) = q \o << e >> /\ << e >> \in Seq(S)
  BY AppendIsConcat, ConcatProperties
<1>2. Append(p \o q, e) = (p \o q) \o << e >>
  BY <1>1, AppendIsConcat
<1> QED BY <1>1, <1>2, ConcatAssociative

(* One between them. *)
LEMMA ConcatHead ==
    ASSUME NEW S, NEW p \in Seq(S), NEW q \in Seq(S), q # << >>
    PROVE  Append(p, Head(q)) \o Tail(q) = p \o q
<1>1. Head(q) \in S /\ Tail(q) \in Seq(S) /\ << Head(q) >> \in Seq(S)
      /\ << Head(q) >> \o Tail(q) = q
  BY TailFacts, HeadTailProperties
<1>2. Append(p, Head(q)) = p \o << Head(q) >>
  BY <1>1, AppendIsConcat
<1> QED BY <1>1, <1>2, ConcatAssociative

InOrder(q) == \A i, j \in 1..Len(q) : i < j /\ q[i].by = q[j].by => q[i].n < q[j].n

(* Nothing in the line is newer than what its behaviour made last, and     *)
(* what a behaviour is about to put again is not in the line yet.          *)
Old(e, newest, at) ==
    /\ e.n <= newest[e.by]
    /\ at[e.by] # "idle" => e.n < newest[e.by]
Made(q, newest, at) == \A i \in 1..Len(q) : Old(q[i], newest, at)

(* The line up to the queue. *)
Ahead(s, p) == s \o (IF p = NoEvent THEN << >> ELSE << p >>)
LineOf(s, p, q) == s \o (IF p = NoEvent THEN << >> ELSE << p >>) \o q

Telling ==
    /\ events \in Seq(Event) /\ spoken \in Seq(Event)
    /\ polled \in Event \cup {NoEvent}
    /\ made \in [Behaviour -> Nat]
    /\ step \in [Behaviour -> {"idle", "full", "room"}]
    /\ InOrder(Line) /\ Made(Line, made, step)

LEMMA LineIs ==
    ASSUME NEW s \in Seq(Event), NEW p \in Event \cup {NoEvent}, NEW q \in Seq(Event)
    PROVE  /\ Ahead(s, p) \in Seq(Event) /\ Ahead(s, p) \o q \in Seq(Event)
           /\ LineOf(s, p, q) = Ahead(s, p) \o q
           /\ p = NoEvent => Ahead(s, p) = s
           /\ p # NoEvent => p \in Event /\ Ahead(s, p) = Append(s, p)
<1>1. CASE p = NoEvent
  <2>1. Ahead(s, p) = s
    BY <1>1, ConcatEmptySeq DEF Ahead
  <2>2. LineOf(s, p, q) = s \o q
    BY <1>1, ConcatEmptySeq DEF LineOf
  <2> QED BY <1>1, <2>1, <2>2, ConcatProperties
<1>2. CASE p # NoEvent
  <2>1. p \in Event /\ << p >> \in Seq(Event)
    BY <1>2
  <2>2. Ahead(s, p) = s \o << p >>
    BY <1>2 DEF Ahead
  <2>3. Ahead(s, p) = Append(s, p) /\ Ahead(s, p) \in Seq(Event)
    BY <2>1, <2>2, AppendIsConcat, AppendProperties
  <2>4. LineOf(s, p, q) = (s \o << p >>) \o q
    BY <1>2, <2>1, ConcatAssociative DEF LineOf
  <2> QED BY <1>2, <2>1, <2>2, <2>3, <2>4, ConcatProperties
<1> QED BY <1>1, <1>2

LEMMA TellingInit == EventsInit => Telling
<1> SUFFICES ASSUME EventsInit PROVE Telling
  OBVIOUS
<1>1. spoken = << >> /\ events = << >> /\ polled = NoEvent
  BY DEF EventsInit
<1>2. Line = << >>
  BY <1>1 DEF Line
<1>3. InOrder(Line) /\ Made(Line, made, step)
  BY <1>2 DEF InOrder, Made
<1> QED BY <1>1, <1>3 DEF Telling, EventsInit

LEMMA TellingElsewhere == ASSUME Telling, UNCHANGED eventVars PROVE Telling'
<1>1. Line' = Line
  BY DEF Line, eventVars
<1> QED BY <1>1 DEF Telling, InOrder, Made, eventVars

(* A behaviour's last event joins the line. *)
LEMMA EventJoins ==
    ASSUME NEW q \in Seq(Event), InOrder(q), NEW b \in Behaviour, NEW n \in Nat,
           \A i \in 1..Len(q) : q[i].by = b => q[i].n < n
    PROVE  InOrder(Append(q, [by |-> b, n |-> n]))
<1> DEFINE e == [by |-> b, n |-> n]  r == Append(q, e)
<1>1. e \in Event /\ e.by = b /\ e.n = n
  BY DEF Event
<1> HIDE DEF e
<1>2. /\ Len(r) = Len(q) + 1 /\ Len(q) \in Nat
      /\ \A i \in 1..Len(r) : \/ i \in 1..Len(q) /\ r[i] = q[i]
                              \/ i = Len(q) + 1 /\ r[i] = e
  BY <1>1, AppendFacts
<1> HIDE DEF r
<1>3. ASSUME NEW i \in 1..Len(r), NEW j \in 1..Len(r), i < j, r[i].by = r[j].by
      PROVE  r[i].n < r[j].n
  <2>1. i \in 1..Len(q) /\ r[i] = q[i]
    BY <1>2, <1>3
  <2>2. CASE j \in 1..Len(q) /\ r[j] = q[j]
    BY <1>3, <2>1, <2>2 DEF InOrder
  <2>3. CASE j = Len(q) + 1 /\ r[j] = e
    BY <1>1, <1>3, <2>1, <2>3
  <2> QED BY <1>2, <2>2, <2>3
<1>4. InOrder(r)
  BY <1>3 DEF InOrder
<1> QED BY <1>4 DEF r, e

(* One in the middle of the line is dropped. *)
LEMMA EventDropped ==
    ASSUME NEW p \in Seq(Event), NEW q \in Seq(Event), q # << >>
    PROVE  /\ InOrder(p \o q) => InOrder(p \o Tail(q))
           /\ \A i \in 1..Len(p \o Tail(q)) : \E j \in 1..Len(p \o q) :
                 (p \o Tail(q))[i] = (p \o q)[j]
<1> DEFINE r == p \o q  t == Tail(q)  u == p \o t  m(i) == IF i <= Len(p) THEN i ELSE i + 1
<1>1. /\ t \in Seq(Event) /\ Len(t) = Len(q) - 1 /\ Len(q) \in Nat /\ Len(p) \in Nat
      /\ \A i \in 1..Len(t) : i + 1 \in 1..Len(q) /\ t[i] = q[i + 1]
  BY TailFacts
<1>2. /\ Len(r) = Len(p) + Len(q)
      /\ \A i \in 1..Len(r) : r[i] = IF i <= Len(p) THEN p[i] ELSE q[i - Len(p)]
  BY ConcatProperties
<1> HIDE DEF r, t
<1>3. /\ Len(u) = Len(p) + Len(t)
      /\ \A i \in 1..Len(u) : u[i] = IF i <= Len(p) THEN p[i] ELSE t[i - Len(p)]
  <2>1. t \in Seq(Event)
    BY <1>1
  <2> QED BY <2>1, ConcatProperties
<1> HIDE DEF u
<1>4. ASSUME NEW i \in 1..Len(u) PROVE m(i) \in 1..Len(r) /\ u[i] = r[m(i)]
  <2>1. i \in Nat /\ 1 <= i /\ i <= Len(p) + Len(q) - 1
    BY <1>1, <1>3
  <2>2. CASE i <= Len(p)
    BY <1>1, <1>2, <1>3, <2>1, <2>2
  <2>3. CASE ~(i <= Len(p))
    <3>1. i - Len(p) \in 1..Len(t) /\ u[i] = t[i - Len(p)]
      BY <1>1, <1>3, <2>1, <2>3
    <3>2. t[i - Len(p)] = q[(i - Len(p)) + 1]
      BY <1>1, <3>1
    <3>3. m(i) = i + 1 /\ i + 1 \in 1..Len(r) /\ ~(i + 1 <= Len(p))
          /\ (i - Len(p)) + 1 = (i + 1) - Len(p)
      BY <1>1, <1>2, <2>1, <2>3
    <3> QED BY <1>2, <3>1, <3>2, <3>3
  <2> QED BY <2>2, <2>3
<1>5. ASSUME NEW i \in 1..Len(u), NEW j \in 1..Len(u), i < j PROVE m(i) < m(j)
  BY <1>1, <1>3, <1>5
<1> HIDE DEF m
<1>6. ASSUME InOrder(r) PROVE InOrder(u)
  BY <1>4, <1>5, <1>6 DEF InOrder
<1> QED BY <1>4, <1>6 DEF r, u, t

(* Every event that was in the line stays old enough, and the one that     *)
(* joins it is.                                                            *)
LEMMA MadeJoins ==
    ASSUME NEW q \in Seq(Event), NEW e \in Event, NEW m, NEW s, NEW n, NEW t, Made(q, m, s),
           \A x \in Event : Old(x, m, s) => Old(x, n, t), Old(e, n, t)
    PROVE  Made(q, n, t) /\ Made(Append(q, e), n, t)
<1> DEFINE r == Append(q, e)
<1>1. \A i \in 1..Len(r) : (i \in 1..Len(q) /\ r[i] = q[i]) \/ r[i] = e
  BY AppendFacts
<1> HIDE DEF r
<1>2. \A i \in 1..Len(q) : Old(q[i], n, t)
  BY DEF Made
<1>3. \A i \in 1..Len(r) : Old(r[i], n, t)
  BY <1>1, <1>2
<1> QED BY <1>2, <1>3 DEF Made, r

LEMMA NotifyTells == ASSUME Telling, NEW b \in Behaviour, NotifyStep(b) PROVE Telling'
<1> DEFINE ahead == Ahead(spoken, polled)
<1>1. /\ ahead \in Seq(Event) /\ Line \in Seq(Event) /\ Line = ahead \o events
      /\ events \in Seq(Event) /\ made \in [Behaviour -> Nat]
      /\ step \in [Behaviour -> {"idle", "full", "room"}]
      /\ InOrder(Line) /\ Made(Line, made, step)
  <2>1. Line = LineOf(spoken, polled, events)
    BY DEF Line, LineOf
  <2>2. spoken \in Seq(Event) /\ polled \in Event \cup {NoEvent} /\ events \in Seq(Event)
    BY DEF Telling
  <2>3. /\ ahead \in Seq(Event) /\ ahead \o events \in Seq(Event)
        /\ LineOf(spoken, polled, events) = ahead \o events
    BY <2>2, LineIs
  <2> QED BY <2>1, <2>3 DEF Telling
<1>2. UNCHANGED <<polled, spoken>>
  BY DEF NotifyStep, Notify, DropStalest, PutAgain
<1>3. ASSUME events' \in Seq(Event) PROVE Line' = ahead \o events' /\ Line' \in Seq(Event)
  <2>1. Line' = LineOf(spoken, polled, events')
    BY <1>2 DEF Line, LineOf
  <2>2. spoken \in Seq(Event) /\ polled \in Event \cup {NoEvent}
    BY DEF Telling
  <2>3. /\ LineOf(spoken, polled, events') = ahead \o events'
        /\ ahead \o events' \in Seq(Event)
    BY <1>3, <2>2, LineIs
  <2> QED BY <2>1, <2>3
<1> HIDE DEF ahead
<1>4. \A e \in Event : e.by \in Behaviour /\ e.n \in Nat
  BY DEF Event
<1> DEFINE e == [by |-> b, n |-> made'[b]]
<1>5. CASE Notify(b)
  <2>1. step[b] = "idle" /\ made' = [made EXCEPT ![b] = made[b] + 1]
    BY <1>1, <1>5 DEF Notify
  <2>2. made' \in [Behaviour -> Nat] /\ made'[b] = made[b] + 1 /\ made[b] \in Nat
        /\ \A c \in Behaviour \ {b} : made'[c] = made[c]
    BY <1>1, <2>1
  <2>3. e \in Event /\ e.by = b /\ e.n = made'[b] /\ Pending(b)' = e /\ made'[b] \in Nat
    BY <2>2 DEF Pending, Event
  <2>4. \A i \in 1..Len(Line) : Line[i].by = b => Line[i].n < made'[b]
    <3> TAKE i \in 1..Len(Line)
    <3>1. Line[i] \in Event /\ Old(Line[i], made, step)
      BY <1>1 DEF Made
    <3> QED BY <1>4, <2>2, <3>1 DEF Old
  <2> HIDE DEF e
  <2>5. CASE events' = Append(events, Pending(b)') /\ UNCHANGED step
    <3>1. events' \in Seq(Event) /\ Line' = Append(Line, e)
      <4>1. events' = Append(events, e) /\ events' \in Seq(Event)
        BY <1>1, <2>3, <2>5, AppendProperties
      <4>2. Line' = ahead \o Append(events, e)
        BY <1>3, <4>1
      <4>3. ahead \o Append(events, e) = Append(ahead \o events, e)
        BY <1>1, <2>3, ConcatAppend
      <4> QED BY <1>1, <4>1, <4>2, <4>3
    <3>2. InOrder(Append(Line, e))
      BY <1>1, <2>2, <2>4, EventJoins DEF e
    <3>3. \A x \in Event : Old(x, made, step) => Old(x, made', step)
      <4> SUFFICES ASSUME NEW x \in Event, Old(x, made, step) PROVE Old(x, made', step)
        OBVIOUS
      <4>1. CASE x.by = b
        BY <1>4, <2>1, <2>2, <4>1 DEF Old
      <4>2. CASE x.by # b
        BY <1>4, <2>2, <4>2 DEF Old
      <4> QED BY <4>1, <4>2
    <3>4. Old(e, made', step)
      BY <2>1, <2>3 DEF Old
    <3>5. Made(Line', made', step')
      BY <1>1, <2>3, <2>5, <3>1, <3>3, <3>4, MadeJoins
    <3>6. InOrder(Line')
      BY <3>1, <3>2
    <3> QED BY <1>1, <1>2, <2>2, <2>5, <3>1, <3>5, <3>6 DEF Telling
  <2>6. CASE step' = [step EXCEPT ![b] = "full"] /\ UNCHANGED events
    <3>1. Line' = Line
      BY <1>1, <1>3, <2>6
    <3>2. step' \in [Behaviour -> {"idle", "full", "room"}]
          /\ \A c \in Behaviour \ {b} : step'[c] = step[c]
      BY <1>1, <2>6
    <3>3. ASSUME NEW i \in 1..Len(Line) PROVE Old(Line[i], made', step')
      <4>1. Line[i] \in Event /\ Old(Line[i], made, step)
        BY <1>1 DEF Made
      <4>2. CASE Line[i].by = b
        BY <1>4, <2>2, <2>4, <4>1, <4>2 DEF Old
      <4>3. CASE Line[i].by # b
        BY <1>4, <2>2, <3>2, <4>1, <4>3 DEF Old
      <4> QED BY <4>2, <4>3
    <3>4. Made(Line', made', step')
      BY <3>1, <3>3 DEF Made
    <3>5. InOrder(Line')
      BY <1>1, <3>1
    <3> QED BY <1>1, <1>2, <2>2, <2>6, <3>2, <3>4, <3>5 DEF Telling
  <2> QED BY <1>5, <2>5, <2>6 DEF Notify
<1>6. CASE DropStalest(b)
  <2>1. UNCHANGED made /\ step[b] = "full"
    BY <1>6 DEF DropStalest
  <2>2. /\ step' \in [Behaviour -> {"idle", "full", "room"}]
        /\ \A c \in Behaviour : step'[c] # "idle" => step[c] # "idle"
    BY <1>1, <1>6 DEF DropStalest
  <2>3. \A x \in Event : Old(x, made, step) => Old(x, made', step')
    BY <1>4, <2>1, <2>2 DEF Old
  <2>4. CASE events = << >>
    <3>1. events' = events /\ Line' = Line
      BY <1>1, <1>3, <1>6, <2>4 DEF DropStalest
    <3>2. \A i \in 1..Len(Line) : Old(Line[i], made', step')
      BY <1>1, <2>3 DEF Made
    <3>3. Made(Line', made', step') /\ InOrder(Line')
      BY <1>1, <3>1, <3>2 DEF Made
    <3> QED BY <1>1, <1>2, <2>1, <2>2, <3>1, <3>3 DEF Telling
  <2>5. CASE events # << >>
    <3>1. events' = Tail(events) /\ events' \in Seq(Event)
      BY <1>1, <1>6, <2>5, TailFacts DEF DropStalest
    <3>2. Line' = ahead \o Tail(events)
      BY <1>3, <3>1
    <3>3. InOrder(Line') /\ \A i \in 1..Len(Line') : \E j \in 1..Len(Line) : Line'[i] = Line[j]
      BY <1>1, <2>5, <3>2, EventDropped
    <3>4. \A i \in 1..Len(Line) : Old(Line[i], made', step')
      BY <1>1, <2>3 DEF Made
    <3>5. Made(Line', made', step')
      BY <3>3, <3>4 DEF Made
    <3> QED BY <1>1, <1>2, <2>1, <2>2, <3>1, <3>3, <3>5 DEF Telling
  <2> QED BY <2>4, <2>5
<1>7. CASE PutAgain(b)
  <2>1. UNCHANGED made /\ step[b] = "room" /\ step' = [step EXCEPT ![b] = "idle"]
    BY <1>7 DEF PutAgain
  <2>2. /\ step' \in [Behaviour -> {"idle", "full", "room"}] /\ step'[b] = "idle"
        /\ \A c \in Behaviour \ {b} : step'[c] = step[c]
    BY <1>1, <2>1
  <2>3. e \in Event /\ e.by = b /\ e.n = made[b] /\ Pending(b) = e /\ made[b] \in Nat
    BY <1>1, <2>1 DEF Pending, Event
  <2>4. \A i \in 1..Len(Line) : Line[i].by = b => Line[i].n < made[b]
    BY <1>1, <2>1 DEF Made, Old
  <2> HIDE DEF e
  <2>5. \A x \in Event : Old(x, made, step) => Old(x, made', step')
    BY <1>4, <2>1, <2>2 DEF Old
  <2>6. Old(e, made', step')
    BY <2>1, <2>2, <2>3 DEF Old
  <2>7. Made(Line, made', step') /\ Made(Append(Line, e), made', step')
    BY <1>1, <2>3, <2>5, <2>6, MadeJoins
  <2>8. CASE events' = events
    <3>1. Line' = Line
      BY <1>1, <1>3, <2>8
    <3>2. Made(Line', made', step') /\ InOrder(Line')
      BY <1>1, <2>7, <3>1
    <3> QED BY <1>1, <1>2, <2>1, <2>2, <2>8, <3>2 DEF Telling
  <2>9. CASE events' = Append(events, Pending(b))
    <3>1. events' \in Seq(Event) /\ Line' = Append(Line, e)
      <4>1. events' = Append(events, e) /\ events' \in Seq(Event)
        BY <1>1, <2>3, <2>9, AppendProperties
      <4>2. Line' = ahead \o Append(events, e)
        BY <1>3, <4>1
      <4>3. ahead \o Append(events, e) = Append(ahead \o events, e)
        BY <1>1, <2>3, ConcatAppend
      <4> QED BY <1>1, <4>1, <4>2, <4>3
    <3>2. InOrder(Append(Line, e))
      BY <1>1, <2>1, <2>3, <2>4, EventJoins DEF e
    <3>3. Made(Line', made', step') /\ InOrder(Line')
      BY <2>7, <3>1, <3>2
    <3> QED BY <1>1, <1>2, <2>1, <2>2, <3>1, <3>3 DEF Telling
  <2> QED BY <1>7, <2>8, <2>9 DEF PutAgain
<1> QED BY <1>5, <1>6, <1>7 DEF NotifyStep

LEMMA ReaderTells == ASSUME Telling, Reader PROVE Telling'
<1>1. /\ events \in Seq(Event) /\ spoken \in Seq(Event) /\ polled \in Event \cup {NoEvent}
      /\ NoEvent \notin Event
      /\ Line = Ahead(spoken, polled) \o events
      /\ polled = NoEvent => Ahead(spoken, polled) = spoken
      /\ polled # NoEvent => polled \in Event /\ Ahead(spoken, polled) = Append(spoken, polled)
      /\ UNCHANGED <<made, step>>
  <2>1. NoEvent \notin Event /\ UNCHANGED <<made, step>>
    BY NotificationsAssumption DEF Event, Reader, Poll, Emit
  <2>2. Line = LineOf(spoken, polled, events)
    BY DEF Line, LineOf
  <2>3. spoken \in Seq(Event) /\ polled \in Event \cup {NoEvent} /\ events \in Seq(Event)
    BY DEF Telling
  <2>4. /\ LineOf(spoken, polled, events) = Ahead(spoken, polled) \o events
        /\ polled = NoEvent => Ahead(spoken, polled) = spoken
        /\ polled # NoEvent => polled \in Event /\ Ahead(spoken, polled) = Append(spoken, polled)
    BY <2>3, LineIs
  <2> QED BY <2>1, <2>2, <2>3, <2>4
<1>2. /\ (spoken \in Seq(Event) /\ polled \in Event \cup {NoEvent} /\ events \in Seq(Event))'
      /\ Line' = Line
  <2>1. CASE Poll
    <3>1. /\ polled = NoEvent /\ events # << >>
          /\ polled' = Head(events) /\ events' = Tail(events) /\ UNCHANGED spoken
      BY <2>1 DEF Poll
    <3>2. Head(events) \in Event /\ Tail(events) \in Seq(Event)
      BY <1>1, <3>1, TailFacts
    <3>3. (spoken \in Seq(Event) /\ polled \in Event \cup {NoEvent} /\ events \in Seq(Event))'
      BY <1>1, <3>1, <3>2
    <3>4. Line' = Ahead(spoken', polled') \o events'
      <4>1. Line' = LineOf(spoken', polled', events')
        BY DEF Line, LineOf
      <4> QED BY <3>3, <4>1, LineIs
    <3>5. Ahead(spoken', polled') = Append(spoken, Head(events))
      BY <1>1, <3>1, <3>2, LineIs
    <3>6. Line' = spoken \o events
      BY <1>1, <3>1, <3>4, <3>5, ConcatHead
    <3> QED BY <1>1, <3>1, <3>3, <3>6
  <2>2. CASE Emit
    <3>1. /\ polled # NoEvent /\ spoken' = Append(spoken, polled) /\ polled' = NoEvent
          /\ UNCHANGED events
      BY <2>2 DEF Emit
    <3>2. (spoken \in Seq(Event) /\ polled \in Event \cup {NoEvent} /\ events \in Seq(Event))'
      BY <1>1, <3>1, AppendProperties
    <3>3. Line' = Ahead(spoken', polled') \o events'
      <4>1. Line' = LineOf(spoken', polled', events')
        BY DEF Line, LineOf
      <4> QED BY <3>2, <4>1, LineIs
    <3>4. Ahead(spoken', polled') = Append(spoken, polled)
      BY <3>1, <3>2, LineIs
    <3> QED BY <1>1, <3>1, <3>2, <3>3, <3>4
  <2> QED BY <2>1, <2>2 DEF Reader
<1>3. Made(Line', made', step') /\ InOrder(Line')
  BY <1>1, <1>2 DEF Telling
<1> QED BY <1>1, <1>2, <1>3 DEF Telling

(* What a behaviour says is told in the order it happened, and told once:  *)
(* notify in its three steps, poll, NotificationInput.__call__.            *)
THEOREM SessionTellsInOrder == Spec => []ToldInOrder
<1>1. Init => Telling
  BY TellingInit DEF Init
<1>2. ASSUME Telling, [Next]_vars PROVE Telling'
  <2>1. CASE \E b \in Behaviour : NotifyStep(b)
    BY <1>2, <2>1, NotifyTells
  <2>2. CASE Reader
    BY <1>2, <2>2, ReaderTells
  <2>3. CASE UNCHANGED eventVars
    BY <1>2, <2>3, TellingElsewhere
  <2> QED BY <1>2, <2>1, <2>2, <2>3
          DEF Next, vars, Living, Typing, Voice, NoVoice, Announcing, Notifying
<1>3. Telling => ToldInOrder
  BY DEF Telling, InOrder, ToldInOrder
<1> QED BY <1>1, <1>2, <1>3, PTL DEF Spec

-----------------------------------------------------------------------------
(* The microphone.                                                         *)

Stale(chunk, now) == chunk # Silence /\ chunk.talk # now

(* Nothing from i on empties the queue of chunks. *)
NoDrain(q, i) == \A j \in i..Len(q) : q[j] # Drain

(* Of earlier utterances only the chunk c is left to come behind the last  *)
(* emptying of the queue that the event loop has been handed, or, within   *)
(* toggle, behind the one it is about to schedule.                         *)
LeftIn(q, c, now) ==
    \A i \in 1..Len(q) : NoDrain(q, i) /\ Stale(q[i].chunk, now) => q[i].chunk = c
QueueLeft(q, c, now) == \A i \in 1..Len(q) : Stale(q[i], now) => q[i] = c
Left(c) ==
    /\ Stale(held, talk) => held = c
    /\ ~toggling => /\ LeftIn(ready, c, talk)
                    /\ NoDrain(ready, 1) => QueueLeft(mic, c, talk)

MicOK ==
    /\ talk \in Nat /\ captured \in Nat /\ held \in Chunk
    /\ ready \in Seq(Callback) /\ mic \in Seq(Chunk)

OneLeft == MicOK /\ \E c \in Chunk : Left(c)

LEMMA SpaceAndDrain ==
    /\ Silence \in Chunk /\ Space \in Callback /\ Drain \in Callback
    /\ Space # Drain /\ Space.chunk = Silence /\ Drain.chunk = Silence /\ Drain.run = "drain"
    /\ \A f \in Callback : f.chunk \in Chunk
<1>1. Silence \in Chunk
  BY DEF Silence, Chunk
<1>2. "toggle" # "drain"
  OBVIOUS
<1> HIDE DEF Silence
<1> QED BY <1>1, <1>2 DEF Space, Drain, Callback

LEMMA OneLeftInit == MicInit => OneLeft
<1> SUFFICES ASSUME MicInit PROVE OneLeft
  OBVIOUS
<1>1. held = Silence /\ ready = << >> /\ mic = << >> /\ talk = 0 /\ captured = 0
  BY DEF MicInit
<1>2. Silence \in Chunk /\ Left(Silence)
  BY <1>1, SpaceAndDrain DEF Left, LeftIn, QueueLeft, Stale
<1> QED BY <1>1, <1>2 DEF OneLeft, MicOK

LEMMA OneLeftElsewhere ==
    ASSUME OneLeft, UNCHANGED <<toggling, talk, ready, held, mic, captured>>
    PROVE  OneLeft'
  BY DEF OneLeft, MicOK, Left

(* What is handed to the loop, unless it empties the queue, changes what   *)
(* is left only by itself.                                                 *)
LEMMA Handed ==
    ASSUME NEW q \in Seq(Callback), NEW f \in Callback, NEW c, NEW now, f # Drain,
           LeftIn(q, c, now), Stale(f.chunk, now) => f.chunk = c
    PROVE  LeftIn(Append(q, f), c, now) /\ (NoDrain(Append(q, f), 1) => NoDrain(q, 1))
<1> DEFINE r == Append(q, f)
<1>1. /\ Len(r) = Len(q) + 1 /\ Len(q) \in Nat
      /\ \A i \in 1..Len(r) : \/ i \in 1..Len(q) /\ r[i] = q[i]
                              \/ i = Len(q) + 1 /\ r[i] = f
  BY AppendFacts
<1>2. \A i \in 1..Len(q) : i \in 1..Len(r) /\ r[i] = q[i]
  OBVIOUS
<1> HIDE DEF r
<1>3. \A i \in 1..Len(q) : NoDrain(r, i) => NoDrain(q, i)
  BY <1>1, <1>2 DEF NoDrain
<1>4. NoDrain(r, 1) => NoDrain(q, 1)
  BY <1>1, <1>2 DEF NoDrain
<1>5. LeftIn(r, c, now)
  BY <1>1, <1>3 DEF LeftIn
<1> QED BY <1>4, <1>5 DEF r

(* What the loop has run is no longer left. *)
LEMMA Ran ==
    ASSUME NEW q \in Seq(Callback), q # << >>, NEW c, NEW now, LeftIn(q, c, now)
    PROVE  /\ LeftIn(Tail(q), c, now)
           /\ NoDrain(Tail(q), 1) /\ Head(q) # Drain =>
                 NoDrain(q, 1) /\ (Stale(Head(q).chunk, now) => Head(q).chunk = c)
<1> DEFINE r == Tail(q)
<1>1. /\ Len(r) = Len(q) - 1 /\ Len(q) \in Nat /\ 1 \in 1..Len(q) /\ Head(q) = q[1]
      /\ \A i \in 1..Len(r) : i + 1 \in 1..Len(q) /\ i \in Nat /\ r[i] = q[i + 1]
  BY TailFacts
<1> HIDE DEF r
<1>2. \A j \in 2..Len(q) : j - 1 \in 1..Len(r) /\ r[j - 1] = q[j]
  BY <1>1
<1>3. ASSUME NEW i \in 1..Len(r), NoDrain(r, i) PROVE NoDrain(q, i + 1)
  <2> SUFFICES ASSUME NEW j \in (i + 1)..Len(q) PROVE q[j] # Drain
    BY DEF NoDrain
  <2>1. j \in 2..Len(q) /\ j - 1 \in i..Len(r)
    BY <1>1
  <2> QED BY <1>2, <1>3, <2>1 DEF NoDrain
<1>4. LeftIn(r, c, now)
  BY <1>1, <1>3 DEF LeftIn
<1>5. ASSUME NoDrain(r, 1), Head(q) # Drain PROVE NoDrain(q, 1)
  <2> SUFFICES ASSUME NEW j \in 1..Len(q) PROVE q[j] # Drain
    BY DEF NoDrain
  <2>1. CASE j = 1
    BY <1>1, <1>5, <2>1
  <2>2. CASE j # 1
    <3>1. j \in 2..Len(q)
      BY <1>1, <2>2
    <3> QED BY <1>2, <1>5, <3>1 DEF NoDrain
  <2> QED BY <2>1, <2>2
<1> QED BY <1>1, <1>4, <1>5 DEF LeftIn, r

LEMMA OneLeftStep == ASSUME OneLeft, MicNext(FALSE) PROVE OneLeft'
<1> USE SpaceAndDrain
<1>1. PICK c \in Chunk : Left(c)
  BY DEF OneLeft
<1>2. /\ talk \in Nat /\ captured \in Nat /\ held \in Chunk
      /\ ready \in Seq(Callback) /\ mic \in Seq(Chunk)
      /\ Stale(held, talk) => held = c
      /\ ~toggling => LeftIn(ready, c, talk) /\ (NoDrain(ready, 1) => QueueLeft(mic, c, talk))
  BY <1>1 DEF OneLeft, MicOK, Left
<1>3. CASE Press
  <2>1. ready' = Append(ready, Space) /\ UNCHANGED <<toggling, talk, held, mic, captured>>
    BY <1>3 DEF Press
  <2>2. ~Stale(Space.chunk, talk)
    BY DEF Stale
  <2>3. ready' \in Seq(Callback)
    BY <1>2, <2>1, AppendProperties
  <2>4. ~toggling => LeftIn(ready', c, talk) /\ (NoDrain(ready', 1) => NoDrain(ready, 1))
    BY <1>2, <2>1, <2>2, Handed
  <2> QED BY <1>1, <1>2, <2>1, <2>3, <2>4 DEF OneLeft, MicOK, Left
<1>4. CASE Capture
  <2>1. /\ held' = [talk |-> talk, n |-> captured + 1] /\ captured' = captured + 1
        /\ UNCHANGED <<toggling, talk, ready, mic>>
    BY <1>4 DEF Capture
  <2>2. held'.talk = talk
    BY <2>1
  <2>3. held' \in Chunk
    BY <1>2, <2>1 DEF Chunk
  <2>4. ~Stale(held', talk)
    BY <2>2 DEF Stale
  <2> QED BY <1>1, <1>2, <2>1, <2>3, <2>4 DEF OneLeft, MicOK, Left
<1>5. CASE HandOver
  <2> DEFINE f == [run |-> "put", chunk |-> held]
  <2>1. ready' = Append(ready, f) /\ held' = Silence /\ UNCHANGED <<toggling, talk, mic, captured>>
    BY <1>5 DEF HandOver
  <2>2. f \in Callback /\ f.chunk = held /\ f.run # "drain"
    BY <1>2 DEF Callback
  <2> HIDE DEF f
  <2>3. ready' \in Seq(Callback)
    BY <1>2, <2>1, <2>2, AppendProperties
  <2>4. ~toggling => LeftIn(ready', c, talk) /\ (NoDrain(ready', 1) => NoDrain(ready, 1))
    BY <1>2, <2>1, <2>2, Handed
  <2>5. ~Stale(held', talk)
    BY <2>1 DEF Stale
  <2> QED BY <1>1, <1>2, <2>1, <2>3, <2>4, <2>5 DEF OneLeft, MicOK, Left
<1>6. CASE Toggle(FALSE) /\ SwitchOff
  <2>1. ready' = Tail(ready) /\ ready # << >> /\ Head(ready).run = "toggle" /\ ~toggling
        /\ UNCHANGED <<toggling, talk, held, mic, captured>>
    BY <1>6 DEF Toggle, SwitchOff, NextIs
  <2>2. Head(ready) # Drain /\ ready' \in Seq(Callback)
    BY <1>2, <2>1, TailFacts
  <2>3. LeftIn(ready', c, talk) /\ (NoDrain(ready', 1) => NoDrain(ready, 1))
    BY <1>2, <2>1, <2>2, Ran
  <2> QED BY <1>1, <1>2, <2>1, <2>2, <2>3 DEF OneLeft, MicOK, Left
<1>7. CASE Toggle(FALSE) /\ SwitchOn
  <2>1. /\ ready' = Tail(ready) /\ ready # << >> /\ toggling'
        /\ talk' = talk + 1 /\ UNCHANGED <<held, mic, captured>>
    BY <1>7 DEF Toggle, SwitchOn, NextIs
  <2>2. ready' \in Seq(Callback)
    BY <1>2, <2>1, TailFacts
  <2>3. Left(held)'
    BY <2>1 DEF Left
  <2>4. (\E d \in Chunk : Left(d))'
    BY <1>2, <2>1, <2>3
  <2> QED BY <1>2, <2>1, <2>2, <2>4 DEF OneLeft, MicOK
<1>11. CASE ScheduleDrain
  <2>1. ready' = Append(ready, Drain) /\ UNCHANGED <<talk, held, mic, captured>>
    BY <1>11 DEF ScheduleDrain
  <2>2. /\ ready' \in Seq(Callback) /\ Len(ready') = Len(ready) + 1 /\ Len(ready) \in Nat
        /\ ready'[Len(ready')] = Drain
    BY <1>2, <2>1, AppendProperties
  <2>3. \A i \in 1..Len(ready') : ~NoDrain(ready', i)
    BY <2>2 DEF NoDrain
  <2>4. LeftIn(ready', c, talk') /\ ~NoDrain(ready', 1)
    BY <2>2, <2>3 DEF LeftIn
  <2> QED BY <1>1, <1>2, <2>1, <2>2, <2>4 DEF OneLeft, MicOK, Left
<1>8. CASE DrainAgent
  <2>1. ready' = Tail(ready) /\ ready # << >> /\ mic' = << >>
        /\ ~toggling /\ UNCHANGED <<toggling, talk, held, captured>>
    BY <1>8 DEF DrainAgent, NextIs
  <2>2. ready' \in Seq(Callback) /\ LeftIn(ready', c, talk)
    BY <1>2, <2>1, TailFacts, Ran
  <2>3. QueueLeft(mic', c, talk) /\ mic' \in Seq(Chunk)
    BY <2>1 DEF QueueLeft
  <2> QED BY <1>1, <1>2, <2>1, <2>2, <2>3 DEF OneLeft, MicOK, Left
<1>9. CASE SafePutAgent
  <2> DEFINE f == Head(ready)  q == IF Len(mic) < MicSize THEN mic ELSE Tail(mic)
  <2>1. /\ ready' = Tail(ready) /\ ready # << >> /\ f.run = "put"
        /\ mic' = Append(q, f.chunk) /\ ~toggling
        /\ UNCHANGED <<toggling, talk, held, captured>>
    BY <1>9 DEF SafePutAgent, NextIs, Put
  <2>2. f # Drain /\ f \in Callback /\ f.chunk \in Chunk /\ ready' \in Seq(Callback)
    BY <1>2, <2>1, TailFacts
  <2>3. /\ LeftIn(ready', c, talk)
        /\ NoDrain(ready', 1) => NoDrain(ready, 1) /\ (Stale(f.chunk, talk) => f.chunk = c)
    BY <1>2, <2>1, <2>2, Ran
  <2>4. q \in Seq(Chunk) /\ (QueueLeft(mic, c, talk) => QueueLeft(q, c, talk))
    <3>1. CASE Len(mic) < MicSize
      BY <1>2, <3>1
    <3>2. CASE ~(Len(mic) < MicSize)
      <4>1. mic # << >>
        BY <1>2, <3>2, MicrophoneAssumption
      <4>2. q = Tail(mic) /\ q \in Seq(Chunk)
            /\ \A i \in 1..Len(q) : i + 1 \in 1..Len(mic) /\ q[i] = mic[i + 1]
        BY <1>2, <3>2, <4>1, TailFacts
      <4> QED BY <4>2 DEF QueueLeft
    <3> QED BY <3>1, <3>2
  <2> HIDE DEF f, q
  <2>5. /\ mic' \in Seq(Chunk)
        /\ \A i \in 1..Len(mic') : (i \in 1..Len(q) /\ mic'[i] = q[i]) \/ mic'[i] = f.chunk
    BY <2>1, <2>2, <2>4, AppendFacts
  <2>6. NoDrain(ready', 1) => QueueLeft(mic', c, talk)
    BY <1>2, <2>1, <2>3, <2>4, <2>5 DEF QueueLeft
  <2> QED BY <1>1, <1>2, <2>1, <2>2, <2>3, <2>5, <2>6 DEF OneLeft, MicOK, Left
<1>10. CASE Hear
  <2>1. ~toggling /\ UNCHANGED <<toggling, talk, ready, held, captured>>
    BY <1>10 DEF Hear
  <2>2. CASE mic = << >>
    BY <1>10, <2>1, <2>2, OneLeftElsewhere DEF Hear
  <2>3. CASE mic # << >>
    <3>1. /\ mic' \in Seq(Chunk)
          /\ \A i \in 1..Len(mic') : i + 1 \in 1..Len(mic) /\ mic'[i] = mic[i + 1]
      <4>1. mic' = Tail(mic)
        BY <1>10, <2>3 DEF Hear
      <4> QED BY <1>2, <2>3, <4>1, TailFacts
    <3>2. QueueLeft(mic, c, talk) => QueueLeft(mic', c, talk)
      BY <3>1 DEF QueueLeft
    <3> QED BY <1>1, <1>2, <2>1, <3>1, <3>2 DEF OneLeft, MicOK, Left
  <2> QED BY <2>2, <2>3
<1> QED BY <1>3, <1>4, <1>5, <1>6, <1>7, <1>8, <1>9, <1>10, <1>11 DEF MicNext, Loop, Toggle

(* Once the microphone is on and the queue has been emptied for it, at     *)
(* most the one chunk the audio thread was handing over is left of an      *)
(* earlier utterance, as a switch-on empties the queue behind what the     *)
(* loop was handed before: ToggleMicInput of session.py.                   *)
THEOREM SessionHearsFresh == Spec => []FreshUtterance
<1>1. Init => OneLeft
  BY OneLeftInit DEF Init
<1>2. ASSUME OneLeft, [Next]_vars PROVE OneLeft'
  <2>1. CASE MicNext(FALSE)
    BY <1>2, <2>1, OneLeftStep
  <2>2. CASE UNCHANGED <<toggling, talk, ready, held, mic, captured>>
    BY <1>2, <2>2, OneLeftElsewhere
  <2> QED BY <1>2, <2>1, <2>2
          DEF Next, vars, micVars, Living, Typing, Voice, NoVoice, Pace, Announcing, Notifying
<1>3. ASSUME OneLeft, Emptied
      PROVE  Cardinality({chunk \in OnTheWay : chunk.talk # talk}) <= 1
  <2> DEFINE old == {chunk \in OnTheWay : chunk.talk # talk}
  <2>1. PICK c \in Chunk : Left(c)
    BY <1>3 DEF OneLeft
  <2>2. ready \in Seq(Callback) /\ mic \in Seq(Chunk)
    BY <1>3 DEF OneLeft, MicOK
  <2>3. \A j \in 1..Len(ready) : ready[j] # Drain
    BY <1>3, <2>2 DEF ToSet, Emptied
  <2>4. \A i \in 1..Len(ready) : NoDrain(ready, i)
    BY <2>2, <2>3 DEF NoDrain
  <2>5. NoDrain(ready, 1)
    BY <2>3 DEF NoDrain
  <2>6. \A i \in 1..Len(ready) : Stale(ready[i].chunk, talk) => ready[i].chunk = c
    BY <2>1, <2>4, <1>3 DEF Left, LeftIn, Emptied
  <2>7. \A i \in 1..Len(mic) : Stale(mic[i], talk) => mic[i] = c
    BY <1>3, <2>1, <2>5 DEF Left, QueueLeft, Emptied
  <2>8. Stale(held, talk) => held = c
    BY <2>1 DEF Left
  <2>9. ASSUME NEW x \in old PROVE x = c
    <3>1. Stale(x, talk)
      BY DEF OnTheWay, Stale
    <3>2. \/ \E i \in 1..Len(mic) : x = mic[i]
          \/ \E i \in 1..Len(ready) : x = ready[i].chunk
          \/ x = held
      BY <2>2 DEF OnTheWay, ToSet
    <3> QED BY <2>6, <2>7, <2>8, <3>1, <3>2
  <2>10. old \subseteq {c} /\ IsFiniteSet({c}) /\ Cardinality({c}) = 1
    BY <2>9, FS_Singleton
  <2> HIDE DEF old
  <2>11. Cardinality(old) <= 1
    BY <2>10, FS_Subset
  <2> QED BY <2>11 DEF old
<1>4. OneLeft => FreshUtterance
  BY <1>3 DEF FreshUtterance
<1> QED BY <1>1, <1>2, <1>4, PTL DEF Spec
=============================================================================
