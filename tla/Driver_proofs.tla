---------------------------- MODULE Driver_proofs ----------------------------
(***************************************************************************)
(* The driver, for any number of robots.  The command path: in which order *)
(* a robot receives what was published, for any number of commands and     *)
(* outages.  The connections: one login per token, one peer connection per *)
(* robot, and a refused robot left alone, for any number of attempts.      *)
(***************************************************************************)
EXTENDS DriverCommands, Reconnect, FiniteSetTheorems, SequenceTheorems, TLAPS

-----------------------------------------------------------------------------
(* The command path.  A command travels queue -> ready -> got (a Twist     *)
(* skips the queue).  The argument is one relation that holds between any  *)
(* two commands of which the first is ahead of the second on that road:    *)
(* they are different commands, and if the first is a request, the second  *)
(* was published later.                                                    *)

Ahead(x, y) == x.id # y.id /\ (x.sort = "request" => x.id < y.id)

InQueue ==
    /\ \A i \in 1..Len(queue) : queue[i].id <= made /\ queue[i].sort = "request"
    /\ \A i, j \in 1..Len(queue) : i < j => Ahead(queue[i], queue[j])

InReady ==
    /\ \A i \in 1..Len(ready) : ready[i].command.id <= made
    /\ \A i, j \in 1..Len(ready) : i < j => Ahead(ready[i].command, ready[j].command)
    /\ \A i \in 1..Len(ready), j \in 1..Len(queue) : Ahead(ready[i].command, queue[j])

InGot ==
    \A r \in Robots :
        /\ \A i \in 1..Len(got[r]) : got[r][i].id <= made
        /\ \A i, j \in 1..Len(got[r]) : i < j => Ahead(got[r][i], got[r][j])
        /\ \A i \in 1..Len(got[r]), j \in 1..Len(ready) :
              Ahead(got[r][i], ready[j].command)
        /\ \A i \in 1..Len(got[r]), j \in 1..Len(queue) : Ahead(got[r][i], queue[j])

Apart ==
    \A r, s \in Robots : r # s =>
        \A i \in 1..Len(got[r]), j \in 1..Len(got[s]) : got[r][i].id # got[s][j].id

(* The numbers of connections are bounded by the faults that caused them.  *)
Dials == \A r \in Robots :
    /\ open[r] => phase[r] = "check"
    /\ r \in booting => conn[r] = 1 /\ phase[r] = "dialing"
    /\ conn[r] <= faults + 1
    /\ phase[r] = "check" /\ ~open[r] => conn[r] <= faults

IInv == TypeOK /\ Dials /\ InQueue /\ InReady /\ InGot /\ Apart

-----------------------------------------------------------------------------
(* What a drain leaves: all of the queue behind what was scheduled.        *)
LEMMA Drained ==
    ASSUME TypeOK, NEW r \in Robots, Drain(r)
    PROVE  /\ ready' \in Seq(Sends) /\ queue' \in Seq(Commands)
           /\ queue' = << >>
           /\ Len(ready') = Len(ready) + Len(queue)
           /\ \A i \in 1..Len(ready) : ready'[i] = ready[i]
           /\ \A i \in 1..Len(ready') : i > Len(ready) =>
                 /\ i - Len(ready) \in 1..Len(queue)
                 /\ ready'[i] = Send(queue[i - Len(ready)], r)
<1> DEFINE more == [i \in 1..Len(queue) |-> Send(queue[i], r)]
<1>1. \A i \in 1..Len(queue) : Send(queue[i], r) \in Sends
  BY DriverAssumption DEF TypeOK, Send, Sends
<1>2. more \in Seq(Sends) /\ Len(more) = Len(queue)
  BY <1>1 DEF TypeOK
<1>3. ready' = ready \o more /\ queue' = << >>
  BY DEF Drain
<1>4. \A i \in 1..Len(queue) : more[i] = Send(queue[i], r)
  OBVIOUS
<1> HIDE DEF more
<1>5. ready \in Seq(Sends) /\ Len(ready) \in Nat /\ Len(queue) \in Nat
  BY DEF TypeOK
<1>6. /\ ready \o more \in Seq(Sends)
       /\ Len(ready \o more) = Len(ready) + Len(more)
       /\ \A i \in 1..Len(ready) + Len(more) : (ready \o more)[i] =
             IF i <= Len(ready) THEN ready[i] ELSE more[i - Len(ready)]
  BY <1>2, <1>5, ConcatProperties, Zenon
<1>7. ready' \in Seq(Sends) /\ Len(ready') = Len(ready) + Len(queue)
  BY <1>2, <1>3, <1>6, Zenon
<1>8. ASSUME NEW i \in 1..Len(ready') PROVE
        ready'[i] = IF i <= Len(ready) THEN ready[i] ELSE more[i - Len(ready)]
  BY <1>2, <1>3, <1>6, <1>7
<1>9. \A i \in 1..Len(ready) : ready'[i] = ready[i]
  BY <1>5, <1>7, <1>8
<1>10. ASSUME NEW i \in 1..Len(ready'), i > Len(ready)
       PROVE  /\ i - Len(ready) \in 1..Len(queue)
              /\ ready'[i] = Send(queue[i - Len(ready)], r)
  BY <1>4, <1>5, <1>7, <1>8, <1>10
<1>11. queue' \in Seq(Commands)
  BY <1>3
<1> QED
  BY <1>3, <1>7, <1>9, <1>10, <1>11

(* A drain keeps the order: what leaves the queue stays behind everything  *)
(* it was behind.                                                          *)
LEMMA DrainKeepsOrder ==
    ASSUME IInv, NEW r \in Robots, Drain(r), UNCHANGED <<made, got>>
    PROVE  InQueue' /\ InReady' /\ InGot' /\ Apart'
<1> USE DEF IInv
<1>1. /\ queue' = << >> /\ Len(ready') = Len(ready) + Len(queue)
      /\ \A i \in 1..Len(ready) : ready'[i] = ready[i]
      /\ \A i \in 1..Len(ready') : i > Len(ready) =>
            /\ i - Len(ready) \in 1..Len(queue)
            /\ ready'[i].command = queue[i - Len(ready)]
  <2>1. \A c : Send(c, r).command = c
    BY DEF Send
  <2> QED
    BY <2>1, Drained
<1>2. Len(ready) \in Nat /\ Len(queue) \in Nat
  BY DEF TypeOK
<1>3. InQueue'
  BY <1>1 DEF InQueue
<1>4. InReady'
  <2>1. ASSUME NEW i \in 1..Len(ready') PROVE ready'[i].command.id <= made
    BY <1>1, <1>2, SMTT(30) DEF InReady, InQueue
  <2>2. ASSUME NEW i \in 1..Len(ready'), NEW j \in 1..Len(ready'), i < j
        PROVE  Ahead(ready'[i].command, ready'[j].command)
    <3>1. CASE j <= Len(ready)
      BY <1>1, <1>2, <2>2, <3>1 DEF InReady
    <3>2. CASE i <= Len(ready) /\ j > Len(ready)
      BY <1>1, <1>2, <2>2, <3>2 DEF InReady
    <3>3. CASE i > Len(ready)
      <4>1. i - Len(ready) \in 1..Len(queue) /\ j - Len(ready) \in 1..Len(queue)
            /\ i - Len(ready) < j - Len(ready)
        BY <1>1, <1>2, <2>2, <3>3
      <4>2. ready'[i].command = queue[i - Len(ready)]
            /\ ready'[j].command = queue[j - Len(ready)]
        <5>1. j > Len(ready)
          BY <1>2, <2>2, <3>3
        <5> QED
          BY <1>1, <3>3, <5>1
      <4> QED
        BY <4>1, <4>2 DEF InQueue
    <3> QED
      BY <1>2, <2>2, <3>1, <3>2, <3>3
  <2> QED
    BY <1>1, <2>1, <2>2 DEF InReady
<1>5. InGot'
  <2> SUFFICES ASSUME NEW s \in Robots, NEW i \in 1..Len(got[s]),
                      NEW j \in 1..Len(ready')
               PROVE  Ahead(got[s][i], ready'[j].command)
    BY <1>1 DEF InGot
  <2>1. CASE j <= Len(ready)
    BY <1>1, <1>2, <2>1 DEF InGot
  <2>2. CASE j > Len(ready)
    BY <1>1, <1>2, <2>2 DEF InGot
  <2> QED
    BY <1>2, <2>1, <2>2
<1>6. Apart'
  BY DEF Apart
<1> QED
  BY <1>3, <1>4, <1>5, <1>6

-----------------------------------------------------------------------------
LEMMA InitIInv == Init => IInv
<1> SUFFICES ASSUME Init PROVE IInv
  OBVIOUS
<1>1. TypeOK
  BY DriverAssumption DEF Init, TypeOK
<1>2. Dials
  <2> SUFFICES ASSUME NEW r \in Robots
               PROVE  /\ open[r] => phase[r] = "check"
                      /\ r \in booting => conn[r] = 1 /\ phase[r] = "dialing"
                      /\ conn[r] <= faults + 1
                      /\ phase[r] = "check" /\ ~open[r] => conn[r] <= faults
    BY DEF Dials
  <2>1. ~open[r]
    BY Zenon DEF Init
  <2>2. phase[r] = "dialing" /\ conn[r] = 1 /\ faults = 0
    BY DEF Init
  <2> QED
    BY <2>1, <2>2
<1>3. InQueue /\ InReady /\ InGot /\ Apart
  BY DEF Init, InQueue, InReady, InGot, Apart
<1> QED
  BY <1>1, <1>2, <1>3 DEF IInv

(* The types, and the bound on connection numbers they need.               *)
LEMMA NextType == TypeOK /\ Dials /\ [Next]_vars => TypeOK' /\ Dials'
<1> SUFFICES ASSUME TypeOK, Dials, [Next]_vars PROVE TypeOK' /\ Dials'
  OBVIOUS
<1> USE DriverAssumption
<1>1. ASSUME NEW r \in Robots, CmdVel(r) PROVE TypeOK' /\ Dials'
  <2>1. made + 1 \in 1..MaxCommands /\ made' = made + 1
    BY <1>1 DEF CmdVel, TypeOK
  <2>2. Made("twist", r) \in Commands
    BY <2>1 DEF Made, Commands
  <2>3. Send(Made("twist", r), r) \in Sends
    BY <2>2 DEF Send, Sends, TypeOK
  <2>4. ready' \in Seq(Sends)
    BY <1>1, <2>3 DEF CmdVel, TypeOK
  <2> QED
    BY <1>1, <2>1, <2>4 DEF CmdVel, TypeOK, Dials, linkVars
<1>2. ASSUME NEW r \in Robots, WebrtcReq(r) PROVE TypeOK' /\ Dials'
  <2>1. made + 1 \in 1..MaxCommands /\ made' = made + 1
    BY <1>2 DEF WebrtcReq, TypeOK
  <2>2. Made("request", r) \in Commands
    BY <2>1 DEF Made, Commands
  <2>3. queue' \in Seq(Commands)
    BY <1>2, <2>2 DEF WebrtcReq, TypeOK
  <2> QED
    BY <1>2, <2>1, <2>3 DEF WebrtcReq, TypeOK, Dials, linkVars
<1>3. ASSUME NEW r \in Robots, Serve(r) PROVE TypeOK' /\ Dials'
  <2>1. ready' \in Seq(Sends) /\ queue' \in Seq(Commands)
    BY <1>3, Drained DEF Serve
  <2> QED
    BY <1>3, <2>1 DEF Serve, TypeOK, Dials, linkVars
<1>4. ASSUME NEW r \in Robots, Redial(r) PROVE TypeOK' /\ Dials'
  BY <1>4 DEF Redial, TypeOK, Dials
<1>5. ASSUME NEW r \in Robots, ConnectReturns(r) PROVE TypeOK' /\ Dials'
  <2>1. ready' \in Seq(Sends) /\ queue' \in Seq(Commands)
    BY <1>5, Drained DEF ConnectReturns, TypeOK
  <2> QED
    BY <1>5, <2>1 DEF ConnectReturns, TypeOK, Dials
<1>6. ASSUME NEW r \in Robots, ConnectFails(r) PROVE TypeOK' /\ Dials'
  BY <1>6 DEF ConnectFails, TypeOK, Dials
<1>7. ASSUME NEW r \in Robots, ChannelCloses(r) PROVE TypeOK' /\ Dials'
  BY <1>7 DEF ChannelCloses, TypeOK, Dials
<1>8. ASSUME Deliver PROVE TypeOK' /\ Dials'
  <2>1. Head(ready) \in Sends /\ Tail(ready) \in Seq(Sends)
    BY <1>8 DEF Deliver, TypeOK
  <2>2. Head(ready).robot \in Robots /\ Head(ready).command \in Commands
    BY <2>1 DEF Sends
  <2>3. got' \in [Robots -> Seq(Commands)]
    BY <1>8, <2>2 DEF Deliver, TypeOK
  <2> QED
    BY <1>8, <2>1, <2>3 DEF Deliver, TypeOK, Dials, linkVars
<1>9. CASE UNCHANGED vars
  BY <1>9 DEF vars, linkVars, TypeOK, Dials
<1> QED
  BY <1>1, <1>2, <1>3, <1>4, <1>5, <1>6, <1>7, <1>8, <1>9 DEF Next, Loop

(* A command just published is behind everything there is.                 *)
LEMMA PublishKeepsOrder ==
    ASSUME IInv, NEW r \in Robots, CmdVel(r) \/ WebrtcReq(r)
    PROVE  InQueue' /\ InReady' /\ InGot' /\ Apart'
<1> USE DEF IInv
<1>1. /\ made \in Nat /\ made' = made + 1 /\ got' = got
      /\ Len(ready) \in Nat /\ Len(queue) \in Nat
  BY DEF CmdVel, WebrtcReq, TypeOK
<1>2. /\ \A i \in 1..Len(queue) : queue[i].id \in Nat
      /\ \A i \in 1..Len(ready) : ready[i].command.id \in Nat
      /\ \A s \in Robots : \A i \in 1..Len(got[s]) : got[s][i].id \in Nat
  <2>1. \A c \in Commands : c.id \in Nat
    BY DriverAssumption DEF Commands
  <2>2. ASSUME NEW i \in 1..Len(queue) PROVE queue[i] \in Commands
    BY DEF TypeOK
  <2>3. ASSUME NEW i \in 1..Len(ready) PROVE ready[i].command \in Commands
    <3>1. ready[i] \in Sends
      BY DEF TypeOK
    <3> QED
      BY <3>1 DEF Sends
  <2>4. ASSUME NEW s \in Robots, NEW i \in 1..Len(got[s]) PROVE got[s][i] \in Commands
    BY DEF TypeOK
  <2> QED
    BY <2>1, <2>2, <2>3, <2>4
<1>3. ASSUME NEW s PROVE Made(s, r).id = made + 1 /\ Made(s, r).sort = s
  BY DEF Made
<1>4. CASE queue' = queue /\ ready' = ready
  BY <1>1, <1>2, <1>4, SMTT(30) DEF InQueue, InReady, InGot, Apart
<1>5. CASE queue' = queue /\ ready' = Append(ready, Send(Made("twist", r), r))
  <2>1. /\ Len(ready') = Len(ready) + 1
        /\ \A i \in 1..Len(ready) : ready'[i] = ready[i]
        /\ ready'[Len(ready) + 1] = Send(Made("twist", r), r)
    BY <1>5 DEF TypeOK
  <2>2. /\ ready'[Len(ready) + 1].command.id = made + 1
        /\ ready'[Len(ready) + 1].command.sort = "twist"
    BY <2>1, <1>3 DEF Send
  <2>3. \A i \in 1..Len(ready') : i \in 1..Len(ready) \/ i = Len(ready) + 1
    BY <1>1, <2>1
  <2>4. InQueue'
    BY <1>1, <1>2, <1>5 DEF InQueue
  <2>5. InReady'
    <3>1. \A i \in 1..Len(ready') : ready'[i].command.id <= made'
      BY <1>1, <1>2, <2>1, <2>2, <2>3, SMTT(30) DEF InReady
    <3>2. ASSUME NEW i \in 1..Len(ready'), NEW j \in 1..Len(ready'), i < j
          PROVE  Ahead(ready'[i].command, ready'[j].command)
      <4>1. i \in 1..Len(ready)
        BY <1>1, <2>1, <3>2
      <4>2. CASE j \in 1..Len(ready)
        BY <2>1, <3>2, <4>1, <4>2 DEF InReady
      <4>3. CASE j = Len(ready) + 1
        BY <1>1, <1>2, <2>1, <2>2, <4>1, <4>3 DEF InReady, Ahead
      <4> QED
        BY <2>3, <4>2, <4>3
    <3>3. ASSUME NEW i \in 1..Len(ready'), NEW j \in 1..Len(queue)
          PROVE  Ahead(ready'[i].command, queue[j])
      <4>1. CASE i \in 1..Len(ready)
        BY <2>1, <4>1 DEF InReady
      <4>2. CASE i = Len(ready) + 1
        BY <1>1, <1>2, <2>2, <4>2 DEF InQueue, Ahead
      <4> QED
        BY <2>3, <4>1, <4>2
    <3> QED
      BY <1>5, <3>1, <3>2, <3>3 DEF InReady
  <2>6. InGot'
    <3> SUFFICES ASSUME NEW s \in Robots, NEW i \in 1..Len(got[s]),
                        NEW j \in 1..Len(ready')
                 PROVE  Ahead(got[s][i], ready'[j].command)
      <4>1. \A s \in Robots : \A i \in 1..Len(got[s]) : got[s][i].id <= made + 1
        BY <1>1, <1>2 DEF InGot
      <4> QED
        BY <1>1, <1>5, <4>1 DEF InGot
    <3>1. CASE j \in 1..Len(ready)
      BY <2>1, <3>1 DEF InGot
    <3>2. CASE j = Len(ready) + 1
      BY <1>1, <1>2, <2>2, <3>2 DEF InGot, Ahead
    <3> QED
      BY <2>3, <3>1, <3>2
  <2>7. Apart'
    BY <1>1 DEF Apart
  <2> QED
    BY <2>4, <2>5, <2>6, <2>7
<1>6. CASE ready' = ready /\ queue' = Append(queue, Made("request", r))
  <2>1. /\ Len(queue') = Len(queue) + 1
        /\ \A i \in 1..Len(queue) : queue'[i] = queue[i]
        /\ queue'[Len(queue) + 1] = Made("request", r)
    BY <1>6 DEF TypeOK
  <2>2. /\ queue'[Len(queue) + 1].id = made + 1
        /\ queue'[Len(queue) + 1].sort = "request"
    BY <2>1, <1>3
  <2>3. \A i \in 1..Len(queue') : i \in 1..Len(queue) \/ i = Len(queue) + 1
    BY <1>1, <2>1
  <2>4. InQueue'
    <3>1. \A i \in 1..Len(queue') : queue'[i].id <= made' /\ queue'[i].sort = "request"
      BY <1>1, <1>2, <2>1, <2>2, <2>3 DEF InQueue
    <3>2. ASSUME NEW i \in 1..Len(queue'), NEW j \in 1..Len(queue'), i < j
          PROVE  Ahead(queue'[i], queue'[j])
      <4>1. i \in 1..Len(queue)
        BY <1>1, <2>1, <3>2
      <4>2. CASE j \in 1..Len(queue)
        BY <2>1, <3>2, <4>1, <4>2 DEF InQueue
      <4>3. CASE j = Len(queue) + 1
        BY <1>1, <1>2, <2>1, <2>2, <4>1, <4>3 DEF InQueue, Ahead
      <4> QED
        BY <2>3, <4>2, <4>3
    <3> QED
      BY <3>1, <3>2 DEF InQueue
  <2>5. InReady'
    <3> SUFFICES ASSUME NEW i \in 1..Len(ready), NEW j \in 1..Len(queue')
                 PROVE  Ahead(ready[i].command, queue'[j])
      BY <1>1, <1>2, <1>6 DEF InReady
    <3>1. CASE j \in 1..Len(queue)
      BY <2>1, <3>1 DEF InReady
    <3>2. CASE j = Len(queue) + 1
      BY <1>1, <1>2, <2>2, <3>2 DEF InReady, Ahead
    <3> QED
      BY <2>3, <3>1, <3>2
  <2>6. InGot'
    <3> SUFFICES ASSUME NEW s \in Robots, NEW i \in 1..Len(got[s]),
                        NEW j \in 1..Len(queue')
                 PROVE  Ahead(got[s][i], queue'[j])
      BY <1>1, <1>2, <1>6 DEF InGot
    <3>1. CASE j \in 1..Len(queue)
      BY <2>1, <3>1 DEF InGot
    <3>2. CASE j = Len(queue) + 1
      BY <1>1, <1>2, <2>2, <3>2 DEF InGot, Ahead
    <3> QED
      BY <2>3, <3>1, <3>2
  <2>7. Apart'
    BY <1>1 DEF Apart
  <2> QED
    BY <2>4, <2>5, <2>6, <2>7
<1> QED
  BY <1>4, <1>5, <1>6 DEF CmdVel, WebrtcReq

(* The head of the road reaches a robot, or is lost.                       *)
LEMMA DeliverKeepsOrder ==
    ASSUME IInv, Deliver
    PROVE  InQueue' /\ InReady' /\ InGot' /\ Apart'
<1> USE DEF IInv
<1> DEFINE r == Head(ready).robot
           c == Head(ready).command
<1>1. /\ queue' = queue /\ made' = made /\ ready # << >> /\ ready' = Tail(ready)
      /\ got' = got \/ got' = [got EXCEPT ![r] = Append(@, c)]
  BY DEF Deliver
<1>2. /\ Head(ready) = ready[1] /\ Head(ready) \in Sends
      /\ Len(ready) \in Nat \ {0} /\ Len(ready') = Len(ready) - 1
      /\ \A i \in 1..Len(ready') : ready'[i] = ready[i + 1] /\ i + 1 \in 1..Len(ready)
  BY <1>1 DEF TypeOK
<1>3. r \in Robots /\ c \in Commands /\ c = ready[1].command /\ 1 \in 1..Len(ready)
  BY <1>2 DEF Sends
<1> HIDE DEF r, c
<1>4. InQueue'
  BY <1>1 DEF InQueue
<1>5. InReady'
  BY <1>1, <1>2 DEF InReady
<1>6. ASSUME NEW j \in 1..Len(ready') PROVE Ahead(c, ready'[j].command)
  BY <1>2, <1>3, 1 < j + 1 DEF InReady
<1>7. \A j \in 1..Len(queue) : Ahead(c, queue[j])
  BY <1>3 DEF InReady
<1>8. \A s \in Robots : \A i \in 1..Len(got[s]) : Ahead(got[s][i], c)
  BY <1>3 DEF InGot
<1>9. c.id <= made
  BY <1>3 DEF InReady
<1>10. CASE got' = got
  <2>1. InGot'
    BY <1>1, <1>2, <1>10 DEF InGot
  <2> QED
    BY <1>4, <1>5, <1>10, <2>1 DEF Apart
<1>11. CASE got' = [got EXCEPT ![r] = Append(@, c)]
  <2>1. \A s \in Robots : s # r => got'[s] = got[s]
    BY <1>11 DEF TypeOK
  <2>2. /\ got'[r] = Append(got[r], c) /\ got[r] \in Seq(Commands)
        /\ Len(got[r]) \in Nat
    BY <1>3, <1>11 DEF TypeOK
  <2>3. /\ Len(got'[r]) = Len(got[r]) + 1
        /\ \A i \in 1..Len(got[r]) : got'[r][i] = got[r][i]
        /\ got'[r][Len(got[r]) + 1] = c
    BY <1>3, <2>2
  <2>4. \A i \in 1..Len(got'[r]) : i \in 1..Len(got[r]) \/ i = Len(got[r]) + 1
    BY <2>2, <2>3
  <2>5. ASSUME NEW s \in Robots, NEW i \in 1..Len(got'[s])
        PROVE  /\ got'[s][i].id <= made
               /\ \A j \in 1..Len(ready') : Ahead(got'[s][i], ready'[j].command)
               /\ \A j \in 1..Len(queue) : Ahead(got'[s][i], queue[j])
    <3>1. CASE s = r /\ i = Len(got[r]) + 1
      BY <1>6, <1>7, <1>9, <2>3, <3>1
    <3>2. CASE i \in 1..Len(got[s]) /\ got'[s][i] = got[s][i]
      BY <1>2, <3>2 DEF InGot
    <3> QED
      BY <2>1, <2>3, <2>4, <3>1, <3>2
  <2>6. ASSUME NEW s \in Robots, NEW i \in 1..Len(got'[s]), NEW j \in 1..Len(got'[s]),
               i < j
        PROVE  Ahead(got'[s][i], got'[s][j])
    <3>1. CASE s # r
      BY <2>1, <2>6, <3>1 DEF InGot
    <3>2. CASE s = r /\ j \in 1..Len(got[r])
      BY <2>2, <2>3, <2>6, <3>2, SMTT(30) DEF InGot
    <3>3. CASE s = r /\ j = Len(got[r]) + 1
      <4>1. i \in 1..Len(got[r])
        BY <2>2, <2>3, <2>6, <3>3
      <4> QED
        BY <1>3, <1>8, <2>3, <3>3, <4>1
    <3> QED
      BY <2>4, <3>1, <3>2, <3>3
  <2>7. InGot'
    BY <1>1, <2>5, <2>6 DEF InGot
  <2>8. ASSUME NEW s \in Robots, NEW q \in Robots, s # q,
               NEW i \in 1..Len(got'[s]), NEW j \in 1..Len(got'[q])
        PROVE  got'[s][i].id # got'[q][j].id
    <3>1. CASE i \in 1..Len(got[s]) /\ got'[s][i] = got[s][i]
      <4>1. CASE j \in 1..Len(got[q]) /\ got'[q][j] = got[q][j]
        BY <2>8, <3>1, <4>1 DEF Apart
      <4>2. CASE got'[q][j] = c
        BY <1>8, <3>1, <4>2 DEF Ahead
      <4> QED
        BY <2>1, <2>3, <2>4, <4>1, <4>2
    <3>2. CASE got'[s][i] = c /\ s = r
      <4>1. j \in 1..Len(got[q]) /\ got'[q][j] = got[q][j]
        BY <2>1, <2>8, <3>2
      <4> QED
        BY <1>8, <3>2, <4>1 DEF Ahead
    <3> QED
      BY <2>1, <2>3, <2>4, <3>1, <3>2
  <2>9. Apart'
    BY <2>8 DEF Apart
  <2> QED
    BY <1>4, <1>5, <2>7, <2>9
<1> QED
  BY <1>1, <1>10, <1>11

-----------------------------------------------------------------------------
LEMMA NextIInv == IInv /\ [Next]_vars => IInv'
<1> SUFFICES ASSUME IInv, [Next]_vars PROVE IInv'
  OBVIOUS
<1>1. TypeOK' /\ Dials'
  BY NextType DEF IInv
<1>2. ASSUME NEW r \in Robots, CmdVel(r) \/ WebrtcReq(r)
      PROVE  InQueue' /\ InReady' /\ InGot' /\ Apart'
  BY <1>2, PublishKeepsOrder
<1>3. ASSUME NEW r \in Robots, Serve(r)
      PROVE  InQueue' /\ InReady' /\ InGot' /\ Apart'
  BY <1>3, DrainKeepsOrder DEF Serve
<1>4. ASSUME NEW r \in Robots, ConnectReturns(r)
      PROVE  InQueue' /\ InReady' /\ InGot' /\ Apart'
  <2>1. CASE Drain(r)
    BY <1>4, <2>1, DrainKeepsOrder DEF ConnectReturns
  <2>2. CASE UNCHANGED <<queue, ready>>
    BY <1>4, <2>2 DEF ConnectReturns, IInv, InQueue, InReady, InGot, Apart
  <2> QED
    BY <1>4, <2>1, <2>2 DEF ConnectReturns
<1>5. ASSUME UNCHANGED <<made, queue, ready, got>>
      PROVE  InQueue' /\ InReady' /\ InGot' /\ Apart'
  BY <1>5 DEF IInv, InQueue, InReady, InGot, Apart
<1>6. ASSUME NEW r \in Robots, Redial(r) \/ ConnectFails(r) \/ ChannelCloses(r)
      PROVE  UNCHANGED <<made, queue, ready, got>>
  BY <1>6 DEF Redial, ConnectFails, ChannelCloses
<1>7. ASSUME Deliver PROVE InQueue' /\ InReady' /\ InGot' /\ Apart'
  BY <1>7, DeliverKeepsOrder
<1>8. ASSUME UNCHANGED vars PROVE UNCHANGED <<made, queue, ready, got>>
  BY <1>8 DEF vars
<1>9. InQueue' /\ InReady' /\ InGot' /\ Apart'
  BY <1>2, <1>3, <1>4, <1>5, <1>6, <1>7, <1>8 DEF Next, Loop
<1> QED
  BY <1>1, <1>9 DEF IInv

(* Everything on the road is in order, always.                             *)
THEOREM RoadInvariant == Spec => []IInv
<1> QED
  BY InitIInv, NextIInv, PTL DEF Spec

(* The fields of the driver hold what their writers put there, and there   *)
(* are no more connection objects than faults account for.                 *)
THEOREM TypeCorrect == Spec => []TypeOK
<1>1. IInv => TypeOK
  BY DEF IInv
<1> QED
  BY <1>1, RoadInvariant, PTL

(* No Twist comes after a later StopMove, whatever the connection does.    *)
THEOREM StopIsLast == Spec => []NoLateTwist
<1>1. IInv => NoLateTwist
  BY DEF IInv, InGot, NoLateTwist, Ahead
<1> QED
  BY <1>1, RoadInvariant, PTL

(* Requests arrive in the order in which they were published.              *)
THEOREM OrderKept == Spec => []RequestsInOrder
<1>1. IInv => RequestsInOrder
  BY DEF IInv, InGot, RequestsInOrder, Ahead
<1> QED
  BY <1>1, RoadInvariant, PTL

(* No command is carried out twice.                                        *)
THEOREM NoRepeats == Spec => []OnceOnly
<1>1. IInv => OnceOnly
  <2> SUFFICES ASSUME IInv, NEW r \in Robots, NEW s \in Robots,
                      NEW i \in 1..Len(got[r]), NEW j \in 1..Len(got[s]),
                      got[r][i].id = got[s][j].id
               PROVE  r = s /\ i = j
    BY DEF OnceOnly
  <2>1. r = s
    BY DEF IInv, Apart
  <2>2. ~(i < j) /\ ~(j < i)
    BY <2>1 DEF IInv, InGot, Ahead
  <2> QED
    BY <2>1, <2>2
<1> QED
  BY <1>1, RoadInvariant, PTL

-----------------------------------------------------------------------------
(* The connections.                                                        *)

Counts == peer \in [Robot -> Nat] /\ left \in [Robot -> Nat]

(* The peers that the driver has a reference to. *)
Held == [r \in Robot |-> peer[r] - left[r]]

(* Robots are connected one after the other, and a loop works on a robot   *)
(* only once all of them have been.                                        *)
Sequential ==
    /\ turn \in Nat /\ up \in {"running", "cleaning", "gone"}
    /\ stage \in [Robot -> Stages]
    /\ \A r \in Robot : stage[r] \notin {"idle", "cancelled"} => Started \/ r = turn
    /\ \A r \in Robot : stage[r] \in {"closing", "asleep"} => Started
    /\ \A r \in Robot : r < turn \/ stage[r] # "idle" \/ (chan[r] = "none" /\ Held[r] = 0)
    /\ \A r \in Robot : r > turn => chan[r] = "none" /\ Held[r] = 0
    /\ up # "running" => \A r \in Robot : stage[r] = "cancelled"

(* The token in the cache is the one login that has not been dropped. *)
Tokens ==
    /\ token \in {"none", "good", "expired"}
    /\ logins \in Nat /\ dropped \in Nat
    /\ logins = dropped + (IF token = "none" THEN 0 ELSE 1)

(* A handshake has the only peer the driver refers to; an open channel     *)
(* belongs to it.                                                          *)
Peers ==
    /\ chan \in [Robot -> {"none", "open", "closed"}]
    /\ Counts /\ Held \in [Robot -> 0..1]
    /\ \A r \in Robot :
          /\ chan[r] = "open" => Held[r] = 1 /\ stage[r] \in {"idle", "cancelled"}
          /\ stage[r] = "dialling" => Held[r] = 1
          /\ stage[r] = "retrying" => Held[r] = 0

(* Times are times, and the last of the attempts is not repeated. *)
Times ==
    /\ flag \in BOOLEAN /\ own \in [Robot -> Whys] /\ treated \in [Robot -> Whys]
    /\ backoff \in [Robot -> 1..300] /\ asleep \in [Robot -> 0..300]
    /\ attempt \in [Robot -> Nat]

RecInv == Sequential /\ Tokens /\ Peers /\ Times /\ LeftAlone

-----------------------------------------------------------------------------
(* Arithmetic.                                                             *)

LEMMA MinOfTwo ==
    ASSUME NEW a \in Int, NEW b \in Int
    PROVE  Min({a, b}) = IF a <= b THEN a ELSE b
<1> DEFINE m == IF a <= b THEN a ELSE b
<1>1. m \in {a, b} /\ \A y \in {a, b} : m <= y
  OBVIOUS
<1>2. \A x \in {a, b} : (\A y \in {a, b} : x <= y) => x = m
  OBVIOUS
<1> HIDE DEF m
<1>3. Min({a, b}) = m
  BY <1>1, <1>2 DEF Min
<1> QED BY <1>3 DEF m

LEMMA MaxOfTwo ==
    ASSUME NEW a \in Int, NEW b \in Int
    PROVE  Max({a, b}) = IF a >= b THEN a ELSE b
<1> DEFINE m == IF a >= b THEN a ELSE b
<1>1. m \in {a, b} /\ \A y \in {a, b} : m >= y
  OBVIOUS
<1>2. \A x \in {a, b} : (\A y \in {a, b} : x >= y) => x = m
  OBVIOUS
<1> HIDE DEF m
<1>3. Max({a, b}) = m
  BY <1>1, <1>2 DEF Max
<1> QED BY <1>3 DEF m

(* What the driver refers to is what is there less what it has given up. *)
LEMMA PeersMove ==
    ASSUME Counts, NEW r \in Robot, NEW p \in Nat, NEW l \in Nat,
           peer' = [peer EXCEPT ![r] = p], left' = [left EXCEPT ![r] = l]
    PROVE  Counts' /\ Held' = [Held EXCEPT ![r] = p - l]
<1>1. peer' \in [Robot -> Nat] /\ left' \in [Robot -> Nat]
  BY DEF Counts
<1>2. /\ peer'[r] = p /\ left'[r] = l
      /\ \A q \in Robot : q # r => peer'[q] = peer[q] /\ left'[q] = left[q]
  BY DEF Counts
<1>3. Held'[r] = p - l
  BY <1>2 DEF Held
<1>4. \A q \in Robot : q # r => Held'[q] = Held[q]
  BY <1>2 DEF Held
<1>5. Held' = [Held EXCEPT ![r] = p - l]
  BY <1>3, <1>4 DEF Held
<1> QED BY <1>1, <1>5 DEF Counts

(* disconnect() closes the one peer that the driver refers to. *)
LEMMA ReferredIsHeld ==
    ASSUME Peers, NEW r \in Robot
    PROVE  Referred(r) = Held[r] /\ Held[r] \in 0..1 /\ Held[r] <= peer[r]
<1>1. Held[r] = peer[r] - left[r] /\ Held[r] \in 0..1 /\ peer[r] \in Nat /\ left[r] \in Nat
  BY DEF Peers, Counts, Held
<1>2. Referred(r) = IF 1 <= peer[r] - left[r] THEN 1 ELSE peer[r] - left[r]
  BY <1>1, MinOfTwo DEF Referred
<1> QED BY <1>1, <1>2

(* Both back-offs stay within bounds; the slow one is at least half a minute. *)
LEMMA BackOffBounds ==
    ASSUME NEW b \in 1..300 PROVE Slower(b) \in 30..300 /\ Quicker(b) \in 1..300
<1>1. Max({b, 15}) = IF b >= 15 THEN b ELSE 15
  BY MaxOfTwo
<1>2. Max({b, 15}) \in 15..300
  BY <1>1
<1>3. Slower(b) = IF Max({b, 15}) * 2 <= 300 THEN Max({b, 15}) * 2 ELSE 300
  <2>1. Max({b, 15}) * 2 \in Int /\ 300 \in Int
    BY <1>2
  <2> QED BY <2>1, MinOfTwo DEF Slower
<1>4. Quicker(b) = IF b * 2 <= 15 THEN b * 2 ELSE 15
  <2>1. b * 2 \in Int /\ 15 \in Int
    OBVIOUS
  <2> QED BY <2>1, MinOfTwo DEF Quicker
<1> QED BY <1>2, <1>3, <1>4

-----------------------------------------------------------------------------
LEMMA InitHolds == ReconnectInit => RecInv
<1> SUFFICES ASSUME ReconnectInit PROVE RecInv
  OBVIOUS
<1>1. Sequential
  BY DEF ReconnectInit, Sequential, Stages, Held
<1>2. Tokens
  BY DEF ReconnectInit, Tokens
<1>3. Peers
  BY DEF ReconnectInit, Peers, Counts, Held
<1>4. Times
  <2>1. flag \in BOOLEAN
    BY DEF ReconnectInit
  <2>2. own \in [Robot -> Whys] /\ treated \in [Robot -> Whys]
    BY DEF ReconnectInit, Whys
  <2>3. /\ backoff \in [Robot -> 1..300] /\ asleep \in [Robot -> 0..300]
        /\ attempt \in [Robot -> Nat]
    BY DEF ReconnectInit
  <2> QED BY <2>1, <2>2, <2>3 DEF Times
<1>5. LeftAlone
  BY DEF ReconnectInit, LeftAlone
<1> QED BY <1>1, <1>2, <1>3, <1>4, <1>5 DEF RecInv

(* While one robot after the other is connected, no loop works; and once   *)
(* all have been, every robot has had its turn.                            *)
LEMMA Turns ==
    ASSUME Sequential, NEW r \in Robot, stage[r] \notin {"idle", "cancelled"}
    PROVE  /\ r \in Int /\ r <= turn
           /\ ~Started => r = turn
           /\ \A q \in Robot : q \in Int
           /\ Started => \A q \in Robot : q < turn
<1>1. Cardinality(Robot) \in Nat /\ Robot = 0..(Cardinality(Robot) - 1)
  BY ReconnectAssumption, FS_CardinalityType
<1>2. turn \in Nat
  BY DEF Sequential
<1>3. Started => \A q \in Robot : q < turn
  BY <1>1, <1>2 DEF Started
<1>4. ~Started => r = turn
  BY DEF Sequential
<1> QED BY <1>1, <1>2, <1>3, <1>4

(* connect() fails: the loop of r backs off, or the next robot's turn is come. *)
LEMMA FailedKeeps ==
    ASSUME RecInv, NEW r \in Robot, NEW why \in {"cloud", "other"}, Failed(r, why),
           stage[r] # "cancelled", Started \/ r = turn, UNCHANGED up,
           chan' \in [Robot -> {"none", "open", "closed"}], chan'[r] # "open",
           Counts', Held' \in [Robot -> 0..1], attempt' \in [Robot -> Nat],
           \A q \in Robot : q # r => chan'[q] = chan[q] /\ Held'[q] = Held[q]
    PROVE  RecInv'
<1>1. /\ up = "running" /\ turn \in Nat /\ stage \in [Robot -> Stages]
      /\ \A q \in Robot : q \in Nat
  BY ReconnectAssumption, FS_CardinalityType DEF RecInv, Sequential
<1>2. CASE Started
  <2>1. /\ stage' = [stage EXCEPT ![r] = "asleep"]
        /\ own' = [own EXCEPT ![r] = why]
        /\ flag' = (flag \/ why = "cloud")
        /\ turn' = turn
    BY <1>2 DEF Failed
  <2>2. IF why = "cloud" THEN Invalidate ELSE UNCHANGED cloudVars
    BY <1>2 DEF Failed
  <2>3. BackOff(r, flag \/ why = "cloud")
    BY <1>2 DEF Failed
  <2>4. Sequential'
    <3>1. \A q \in Robot : q < turn
      BY <1>2, ReconnectAssumption, FS_CardinalityType DEF RecInv, Sequential, Started
    <3>2. stage' \in [Robot -> Stages]
      BY <1>1, <2>1 DEF Stages
    <3> QED BY <1>1, <1>2, <2>1, <3>1, <3>2 DEF Sequential, Started
  <2>5. Tokens'
    BY <2>2 DEF RecInv, Tokens, Invalidate, cloudVars
  <2>6. Peers'
    BY <1>1, <2>1 DEF RecInv, Peers
  <2>7. backoff[r] \in 1..300
    BY DEF RecInv, Times
  <2>8. Slower(backoff[r]) \in 30..300 /\ Quicker(backoff[r]) \in 1..300
    BY <2>7, BackOffBounds
  <2>9. Times'
    <3>1. flag' \in BOOLEAN /\ own' \in [Robot -> Whys]
      BY <2>1 DEF RecInv, Times, Whys
    <3>2. backoff' \in [Robot -> 1..300] /\ asleep' \in [Robot -> 0..300]
      BY <2>3, <2>7, <2>8 DEF RecInv, Times, BackOff
    <3>3. treated' \in [Robot -> Whys]
      BY <2>3 DEF RecInv, Times, BackOff, Whys
    <3> QED BY <3>1, <3>2, <3>3 DEF Times
  <2>10. LeftAlone'
    <3> SUFFICES ASSUME NEW q \in Robot, stage'[q] = "asleep", own'[q] = "cloud"
                 PROVE  asleep'[q] >= 30
      BY DEF LeftAlone
    <3>1. CASE q # r
      <4>1. stage[q] = "asleep" /\ own[q] = "cloud" /\ asleep'[q] = asleep[q]
        BY <1>1, <2>1, <2>3, <3>1 DEF RecInv, Times, BackOff
      <4> QED BY <4>1 DEF RecInv, LeftAlone
    <3>2. CASE q = r
      <4>1. why = "cloud"
        BY <2>1, <3>2 DEF RecInv, Times
      <4>2. asleep'[r] = Slower(backoff[r])
        BY <2>3, <4>1 DEF BackOff, RecInv, Times
      <4> QED BY <2>8, <3>2, <4>2
    <3> QED BY <3>1, <3>2
  <2> QED BY <2>4, <2>5, <2>6, <2>9, <2>10 DEF RecInv
<1>3. CASE ~Started
  <2>1. /\ stage' = [stage EXCEPT ![r] = "idle"]
        /\ turn' = turn + 1 /\ r = turn
        /\ UNCHANGED <<flag, cloudVars, watchVars>>
    BY <1>3 DEF Failed
  <2>2. stage' \in [Robot -> Stages] /\ stage'[r] = "idle"
        /\ \A q \in Robot : q # r => stage'[q] = stage[q]
    BY <1>1, <2>1 DEF Stages
  <2>3. Sequential'
    <3>1. \A q \in Robot : q # r => stage[q] \in {"idle", "cancelled"}
      BY <1>3, <2>1 DEF RecInv, Sequential
    <3>2. \A q \in Robot : q > turn => chan'[q] = "none" /\ Held'[q] = 0
      BY <1>1, <2>1 DEF RecInv, Sequential
    <3>3. \A q \in Robot : q < turn' \/ stage'[q] # "idle" \/ (chan'[q] = "none" /\ Held'[q] = 0)
      BY <1>1, <2>1, <3>2
    <3>4. \A q \in Robot : q > turn' => chan'[q] = "none" /\ Held'[q] = 0
      BY <1>1, <2>1, <3>2
    <3> QED BY <1>1, <2>1, <2>2, <3>1, <3>3, <3>4 DEF Sequential
  <2>4. Tokens' /\ Times'
    BY <2>1 DEF RecInv, Tokens, Times, cloudVars, watchVars
  <2>5. Peers'
    BY <2>2 DEF RecInv, Peers
  <2>6. LeftAlone'
    BY <2>1, <2>2 DEF RecInv, LeftAlone, watchVars
  <2> QED BY <2>3, <2>4, <2>5, <2>6 DEF RecInv
<1> QED BY <1>2, <1>3

(* A handshake begins: with a token, and no other peer. *)
LEMMA DialKeeps ==
    ASSUME RecInv, NEW r \in Robot, NEW n \in Nat,
           stage[r] # "cancelled", Started \/ r = turn,
           ~LoginRejected, IF token = "none" THEN Login ELSE UNCHANGED cloudVars,
           Counts', Held' = [Held EXCEPT ![r] = 1], attempt' = [attempt EXCEPT ![r] = n],
           stage' = [stage EXCEPT ![r] = "dialling"],
           UNCHANGED <<flag, turn, watchVars, up>>,
           chan' \in [Robot -> {"none", "open", "closed"}], chan'[r] # "open",
           \A q \in Robot : q # r => chan'[q] = chan[q]
    PROVE  RecInv'
<1>1. /\ up = "running" /\ stage \in [Robot -> Stages] /\ Held \in [Robot -> 0..1]
      /\ turn \in Nat /\ \A q \in Robot : q \in Nat
  BY ReconnectAssumption, FS_CardinalityType DEF RecInv, Sequential, Peers
<1>2. /\ stage' \in [Robot -> Stages] /\ stage'[r] = "dialling"
      /\ Held' \in [Robot -> 0..1] /\ Held'[r] = 1
      /\ \A q \in Robot : q # r => stage'[q] = stage[q] /\ Held'[q] = Held[q]
  BY <1>1 DEF Stages
<1>3. r <= turn
  BY <1>1, ReconnectAssumption, FS_CardinalityType DEF Started
<1>4. Sequential'
  <2>1. \A q \in Robot : q > turn => q # r
    BY <1>1, <1>3
  <2> QED BY <1>1, <1>2, <2>1 DEF RecInv, Sequential, Started
<1>5. Tokens'
  BY DEF RecInv, Tokens, Login, cloudVars
<1>6. Peers'
  BY <1>2 DEF RecInv, Peers
<1>7. Times'
  BY DEF RecInv, Times, watchVars
<1>8. LeftAlone'
  BY <1>2 DEF RecInv, LeftAlone, watchVars
<1> QED BY <1>4, <1>5, <1>6, <1>7, <1>8 DEF RecInv

(* An attempt, after gone of what the driver refers to has closed and over *)
(* has not.                                                                *)
LEMMA AttemptKeeps ==
    ASSUME RecInv, NEW r \in Robot, NEW n \in Nat, NEW gone \in Nat, NEW over \in Nat,
           Held[r] = gone + over, left' = [left EXCEPT ![r] = @ + over],
           Attempt(r, n, gone), stage[r] # "cancelled", Started \/ r = turn, UNCHANGED up,
           chan' \in [Robot -> {"none", "open", "closed"}], chan'[r] # "open",
           \A q \in Robot : q # r => chan'[q] = chan[q]
    PROVE  RecInv'
<1>1. attempt \in [Robot -> Nat] /\ Held \in [Robot -> 0..1] /\ Counts
  BY DEF RecInv, Times, Peers
<1>2. /\ peer[r] \in Nat /\ left[r] \in Nat /\ peer[r] - gone \in Nat
      /\ peer[r] - gone = left[r] + over
  <2>1. peer[r] \in Nat /\ left[r] \in Nat
    BY <1>1 DEF Counts
  <2>2. peer[r] - left[r] = gone + over
    BY DEF Held
  <2> QED BY <2>1, <2>2
<1>3. ASSUME NEW new \in Nat, peer' = [peer EXCEPT ![r] = peer[r] - gone + new]
      PROVE  Counts' /\ Held' = [Held EXCEPT ![r] = new]
  <2>1. peer[r] - gone + new \in Nat /\ (peer[r] - gone + new) - (left[r] + over) = new
    BY <1>2
  <2>2. peer' \in [Robot -> Nat] /\ left' \in [Robot -> Nat]
    BY <1>1, <1>2, <1>3, <2>1 DEF Counts
  <2>3. /\ peer'[r] = peer[r] - gone + new /\ left'[r] = left[r] + over
        /\ \A q \in Robot : q # r => peer'[q] = peer[q] /\ left'[q] = left[q]
    BY <1>1, <1>3 DEF Counts
  <2>4. Held'[r] = new
    BY <2>1, <2>3 DEF Held
  <2>5. \A q \in Robot : q # r => Held'[q] = Held[q]
    BY <2>3 DEF Held
  <2>6. Held' = [q \in Robot |-> IF q = r THEN new ELSE Held[q]]
    <3>1. \A q \in Robot : Held'[q] = IF q = r THEN new ELSE Held[q]
      BY <2>4, <2>5
    <3>2. Held' = [q \in Robot |-> Held'[q]]
      BY DEF Held
    <3> QED BY <3>1, <3>2
  <2>7. Held' = [Held EXCEPT ![r] = new]
    BY <1>1, <2>6
  <2> QED BY <2>2, <2>7 DEF Counts
<1>4. CASE /\ Failed(r, "cloud")
           /\ peer' = [peer EXCEPT ![r] = @ - gone] /\ attempt' = [attempt EXCEPT ![r] = n]
  <2>1. peer' = [peer EXCEPT ![r] = peer[r] - gone + 0]
    <3>1. peer[r] - gone + 0 = peer[r] - gone
      BY <1>2
    <3>2. peer' = [peer EXCEPT ![r] = peer[r] - gone]
      BY <1>4
    <3> QED BY <3>1, <3>2
  <2>3. Counts' /\ Held' = [Held EXCEPT ![r] = 0]
    BY <1>3, <2>1
  <2>4. attempt' \in [Robot -> Nat] /\ Held' \in [Robot -> 0..1]
    BY <1>1, <1>4, <2>3
  <2>5. \A q \in Robot : q # r => chan'[q] = chan[q] /\ Held'[q] = Held[q]
    BY <1>1, <2>3
  <2> QED BY <1>4, <2>3, <2>4, <2>5, FailedKeeps
<1>5. CASE /\ ~LoginRejected
           /\ IF token = "none" THEN Login ELSE UNCHANGED cloudVars
           /\ peer' = [peer EXCEPT ![r] = @ - gone + 1]
           /\ attempt' = [attempt EXCEPT ![r] = n]
           /\ stage' = [stage EXCEPT ![r] = "dialling"]
           /\ UNCHANGED <<flag, turn, watchVars>>
  <2>1. peer' = [peer EXCEPT ![r] = peer[r] - gone + 1]
    BY <1>5
  <2>3. Counts' /\ Held' = [Held EXCEPT ![r] = 1]
    BY <1>3, <2>1
  <2> QED BY <1>5, <2>3, DialKeeps
<1> QED BY <1>4, <1>5 DEF Attempt

-----------------------------------------------------------------------------
(* The steps.                                                              *)

LEMMA FirstConnectKeeps == ASSUME RecInv, NEW r \in Robot, FirstConnect(r) PROVE RecInv'
<1>1. turn \in Nat /\ r = turn /\ stage[r] = "idle"
  BY DEF RecInv, Sequential, FirstConnect
<1>2. chan[r] = "none" /\ Held[r] = 0 + 0
  BY <1>1 DEF RecInv, Sequential
<1>3. chan' \in [Robot -> {"none", "open", "closed"}] /\ UNCHANGED <<chan, up>>
  BY DEF RecInv, Peers, FirstConnect
<1>4. left' = [left EXCEPT ![r] = @ + 0]
  BY DEF RecInv, Peers, Counts, FirstConnect
<1> QED BY <1>1, <1>2, <1>3, <1>4, AttemptKeeps DEF FirstConnect

LEMMA NextAttemptKeeps == ASSUME RecInv, NEW r \in Robot, NextAttempt(r) PROVE RecInv'
<1>1. stage[r] = "retrying" /\ Attempt(r, attempt[r] + 1, 0) /\ UNCHANGED <<chan, left, up>>
  BY DEF NextAttempt
<1>2. /\ chan' \in [Robot -> {"none", "open", "closed"}] /\ chan[r] # "open"
      /\ Held[r] = 0 + 0
  BY <1>1 DEF RecInv, Peers
<1>3. Started \/ r = turn
  BY <1>1 DEF RecInv, Sequential
<1>4. attempt[r] + 1 \in Nat
  BY DEF RecInv, Times
<1>5. left' = [left EXCEPT ![r] = @ + 0]
  BY <1>1 DEF RecInv, Peers, Counts
<1> QED BY <1>1, <1>2, <1>3, <1>4, <1>5, AttemptKeeps

LEMMA RedialsKeeps == ASSUME RecInv, NEW r \in Robot, Redials(r) PROVE RecInv'
<1>1. stage[r] = "closing" /\ chan' = [chan EXCEPT ![r] = "none"] /\ UNCHANGED up
  BY DEF Redials
<1>2. PICK gone \in 0..Referred(r) :
          /\ Attempt(r, 1, gone)
          /\ left' = [left EXCEPT ![r] = @ + (Referred(r) - gone)]
  BY DEF Redials
<1>3. Referred(r) = Held[r] /\ Held[r] \in 0..1
  BY ReferredIsHeld DEF RecInv
<1>4. gone \in Nat /\ Referred(r) - gone \in Nat /\ Held[r] = gone + (Referred(r) - gone)
  BY <1>2, <1>3
<1>5. /\ chan' \in [Robot -> {"none", "open", "closed"}] /\ chan'[r] # "open"
      /\ \A q \in Robot : q # r => chan'[q] = chan[q]
  BY <1>1 DEF RecInv, Peers
<1>6. Started \/ r = turn
  BY <1>1 DEF RecInv, Sequential
<1> QED BY <1>1, <1>2, <1>4, <1>5, <1>6, AttemptKeeps

LEMMA EndsBadlyKeeps ==
    ASSUME RecInv, NEW r \in Robot, Rejected(r) \/ Raises(r) PROVE RecInv'
<1>1. /\ stage[r] = "dialling" /\ UNCHANGED <<attempt, chan, peer, left, Held, up>>
      /\ \E why \in {"cloud", "other"} : Failed(r, why)
  BY DEF Rejected, Raises, peerVars, Held
<1>2. PICK why \in {"cloud", "other"} : Failed(r, why)
  BY <1>1
<1>3. /\ chan' \in [Robot -> {"none", "open", "closed"}] /\ chan'[r] # "open"
      /\ Counts' /\ Held' \in [Robot -> 0..1] /\ attempt' \in [Robot -> Nat]
  BY <1>1 DEF RecInv, Peers, Counts, Times
<1>4. Started \/ r = turn
  BY <1>1 DEF RecInv, Sequential
<1> QED BY <1>1, <1>2, <1>3, <1>4, FailedKeeps

LEMMA RetryableKeeps == ASSUME RecInv, NEW r \in Robot, Retryable(r) PROVE RecInv'
<1>1. stage[r] = "dialling" /\ UNCHANGED <<attempt, chan, up>> /\ ClosesPeer(r)
  BY DEF Retryable
<1>2. /\ Held \in [Robot -> 0..1] /\ Held[r] = 1 /\ chan[r] # "open"
      /\ chan' \in [Robot -> {"none", "open", "closed"}]
      /\ attempt' \in [Robot -> Nat] /\ attempt[r] \in Nat
  BY <1>1 DEF RecInv, Peers, Times
<1>3. /\ Counts' /\ Held' \in [Robot -> 0..1] /\ Held'[r] = 0
      /\ \A q \in Robot : q # r => Held'[q] = Held[q]
  <2>1. /\ Counts /\ peer[r] \in Nat /\ left[r] \in Nat /\ peer[r] - 1 \in Nat
        /\ peer[r] = left[r] + 1
    BY <1>2 DEF RecInv, Peers, Counts, Held
  <2>2. PICK p \in Nat, l \in Nat : /\ peer' = [peer EXCEPT ![r] = p] /\ p - l = 0
                                  /\ left' = [left EXCEPT ![r] = l]
    <3>1. CASE peer' = [peer EXCEPT ![r] = @ - 1] /\ UNCHANGED left
      <4>1. peer' = [peer EXCEPT ![r] = peer[r] - 1] /\ left' = [left EXCEPT ![r] = left[r]]
        BY <2>1, <3>1 DEF Counts
      <4>2. (peer[r] - 1) - left[r] = 0 /\ peer[r] - 1 \in Nat /\ left[r] \in Nat
        BY <2>1
      <4> QED BY <4>1, <4>2
    <3>2. CASE left' = [left EXCEPT ![r] = @ + 1] /\ UNCHANGED peer
      <4>1. peer' = [peer EXCEPT ![r] = peer[r]] /\ left' = [left EXCEPT ![r] = left[r] + 1]
        BY <2>1, <3>2 DEF Counts
      <4>2. peer[r] - (left[r] + 1) = 0 /\ peer[r] \in Nat /\ left[r] + 1 \in Nat
        BY <2>1
      <4> QED BY <4>1, <4>2
    <3> QED BY <1>1, <3>1, <3>2 DEF ClosesPeer
  <2>3. Counts' /\ Held' = [Held EXCEPT ![r] = p - l]
    BY <2>1, <2>2, PeersMove
  <2> QED BY <1>2, <2>2, <2>3
<1>4. Started \/ r = turn
  BY <1>1 DEF RecInv, Sequential
<1>5. CASE Failed(r, "other")
  BY <1>1, <1>2, <1>3, <1>4, <1>5, FailedKeeps
<1>6. CASE /\ stage' = [stage EXCEPT ![r] = "retrying"]
           /\ asleep' = [asleep EXCEPT ![r] = Min({15, 5 * attempt[r]})]
           /\ UNCHANGED <<flag, turn, cloudVars, backoff, own, treated>>
  <2>1. /\ stage' \in [Robot -> Stages] /\ stage'[r] = "retrying"
        /\ \A q \in Robot : q # r => stage'[q] = stage[q]
    BY <1>6 DEF RecInv, Sequential, Stages
  <2>2. Min({15, 5 * attempt[r]}) \in 0..300
    <3>1. 15 \in Int /\ 5 * attempt[r] \in Nat
      BY <1>2
    <3>2. Min({15, 5 * attempt[r]}) = IF 15 <= 5 * attempt[r] THEN 15 ELSE 5 * attempt[r]
      BY <3>1, MinOfTwo
    <3> QED BY <3>1, <3>2
  <2>3. Sequential'
    <3>1. r \in Nat /\ r <= turn /\ turn \in Nat /\ \A q \in Robot : q \in Nat
      BY <1>4, ReconnectAssumption, FS_CardinalityType DEF RecInv, Sequential, Started
    <3>2. \A q \in Robot : q > turn => q # r
      BY <3>1
    <3> QED BY <1>1, <1>3, <1>4, <1>6, <2>1, <3>2 DEF RecInv, Sequential, Started
  <2>4. Tokens'
    BY <1>6 DEF RecInv, Tokens, cloudVars
  <2>5. Peers'
    BY <1>1, <1>2, <1>3, <2>1 DEF RecInv, Peers
  <2>6. asleep' \in [Robot -> 0..300] /\ \A q \in Robot : q # r => asleep'[q] = asleep[q]
    BY <1>6, <2>2 DEF RecInv, Times
  <2>7. Times'
    BY <1>2, <1>6, <2>6 DEF RecInv, Times
  <2>8. LeftAlone'
    BY <1>6, <2>1, <2>6 DEF RecInv, LeftAlone
  <2> QED BY <2>3, <2>4, <2>5, <2>7, <2>8 DEF RecInv
<1> QED BY <1>5, <1>6 DEF Retryable

LEMMA OpensKeeps == ASSUME RecInv, NEW r \in Robot, Opens(r) PROVE RecInv'
<1>1. /\ stage[r] = "dialling" /\ UNCHANGED <<token, logins, dropped, flag, attempt, peer, left, Held, up>>
      /\ chan' = [chan EXCEPT ![r] = "open"] /\ stage' = [stage EXCEPT ![r] = "idle"]
  BY DEF Opens, cloudVars, peerVars, Held
<1>2. /\ stage' \in [Robot -> Stages] /\ stage'[r] = "idle"
      /\ chan' \in [Robot -> {"none", "open", "closed"}]
      /\ \A q \in Robot : q # r => stage'[q] = stage[q] /\ chan'[q] = chan[q]
  BY <1>1 DEF RecInv, Sequential, Peers, Stages
<1>3. Peers'
  BY <1>1, <1>2 DEF RecInv, Peers, Counts
<1>4. Tokens'
  BY <1>1 DEF RecInv, Tokens
<1>5. turn \in Nat /\ \A q \in Robot : q \in Nat
  BY ReconnectAssumption, FS_CardinalityType DEF RecInv, Sequential
<1>6. CASE Started
  <2>1. /\ backoff' = [backoff EXCEPT ![r] = 1]
        /\ own' = [own EXCEPT ![r] = "none"] /\ treated' = [treated EXCEPT ![r] = "none"]
        /\ UNCHANGED <<turn, asleep>>
    BY <1>6 DEF Opens
  <2>2. \A q \in Robot : q < turn
    BY <1>5, <1>6, ReconnectAssumption, FS_CardinalityType DEF Started
  <2>3. Sequential'
    BY <1>1, <1>2, <1>5, <1>6, <2>1, <2>2 DEF RecInv, Sequential, Started
  <2>4. Times'
    <3>1. flag' \in BOOLEAN /\ attempt' \in [Robot -> Nat] /\ asleep' \in [Robot -> 0..300]
      BY <1>1, <2>1 DEF RecInv, Times
    <3>2. own' \in [Robot -> Whys] /\ treated' \in [Robot -> Whys]
      BY <2>1 DEF RecInv, Times, Whys
    <3>3. backoff' \in [Robot -> 1..300]
      BY <2>1 DEF RecInv, Times
    <3> QED BY <3>1, <3>2, <3>3 DEF Times
  <2>5. LeftAlone'
    <3> SUFFICES ASSUME NEW q \in Robot, stage'[q] = "asleep", own'[q] = "cloud"
                 PROVE  asleep'[q] >= 30
      BY DEF LeftAlone
    <3>1. q # r /\ stage[q] = "asleep"
      BY <1>2
    <3>2. own'[q] = own[q] /\ asleep'[q] = asleep[q]
      BY <2>1, <3>1 DEF RecInv, Times
    <3> QED BY <3>1, <3>2 DEF RecInv, LeftAlone
  <2> QED BY <1>3, <1>4, <2>3, <2>4, <2>5 DEF RecInv
<1>7. CASE ~Started
  <2>1. turn' = turn + 1 /\ UNCHANGED watchVars
    BY <1>7 DEF Opens
  <2>2. r = turn /\ \A q \in Robot : q # r => stage[q] \in {"idle", "cancelled"}
    BY <1>1, <1>7 DEF RecInv, Sequential
  <2>3. Sequential'
    <3>1. up = "running"
      BY <1>1 DEF RecInv, Sequential
    <3>2. \A q \in Robot : q > turn => chan'[q] = "none" /\ Held'[q] = 0
      BY <1>1, <1>2, <1>5, <2>2 DEF RecInv, Sequential
    <3>3. \A q \in Robot : q < turn' \/ stage'[q] # "idle" \/ (chan'[q] = "none" /\ Held'[q] = 0)
      BY <1>5, <2>1, <3>2
    <3>4. \A q \in Robot : q > turn' => chan'[q] = "none" /\ Held'[q] = 0
      BY <1>5, <2>1, <3>2
    <3> QED BY <1>1, <1>2, <1>5, <2>1, <2>2, <3>1, <3>3, <3>4 DEF Sequential
  <2>4. Times'
    BY <1>1, <2>1 DEF RecInv, Times, watchVars
  <2>5. LeftAlone'
    BY <1>2, <2>1 DEF RecInv, LeftAlone, watchVars
  <2> QED BY <1>3, <1>4, <2>3, <2>4, <2>5 DEF RecInv
<1> QED BY <1>6, <1>7

LEMMA WakesKeeps == ASSUME RecInv, NEW r \in Robot, Wakes(r) PROVE RecInv'
<1>1. /\ stage[r] = "asleep" /\ stage' = [stage EXCEPT ![r] = "idle"]
      /\ asleep' = [asleep EXCEPT ![r] = 0]
      /\ UNCHANGED <<token, logins, dropped, flag, turn, attempt, chan, peer, left, Held, backoff, own,
                     treated, up>>
  BY DEF Wakes, cloudVars, peerVars, Held
<1>2. /\ stage' \in [Robot -> Stages] /\ stage'[r] = "idle"
      /\ \A q \in Robot : q # r => stage'[q] = stage[q]
  BY <1>1 DEF RecInv, Sequential, Stages
<1>3. Sequential'
  <2>1. Started
    BY <1>1 DEF RecInv, Sequential
  <2>2. r < turn
    BY <2>1, ReconnectAssumption, FS_CardinalityType DEF RecInv, Sequential, Started
  <2> QED BY <1>1, <1>2, <2>1, <2>2 DEF RecInv, Sequential, Started
<1>4. Tokens' /\ Peers'
  BY <1>1, <1>2 DEF RecInv, Tokens, Peers, Counts
<1>5. Times'
  BY <1>1 DEF RecInv, Times
<1>6. LeftAlone'
  BY <1>1, <1>2 DEF RecInv, LeftAlone, Times
<1> QED BY <1>3, <1>4, <1>5, <1>6 DEF RecInv

LEMMA NoticesKeeps == ASSUME RecInv, NEW r \in Robot, Notices(r) PROVE RecInv'
<1>1. /\ stage[r] = "idle" /\ stage' = [stage EXCEPT ![r] = "closing"]
      /\ Started /\ chan[r] # "open" /\ flag' = FALSE
      /\ UNCHANGED <<token, logins, dropped, turn, attempt, chan, peer, left, Held, backoff, own, asleep,
                     treated, up>>
  BY DEF Notices, cloudVars, watchVars, peerVars, Held
<1>2. /\ stage' \in [Robot -> Stages] /\ stage'[r] = "closing"
      /\ \A q \in Robot : q # r => stage'[q] = stage[q]
  BY <1>1 DEF RecInv, Sequential, Stages
<1>3. Sequential'
  BY <1>1, <1>2 DEF RecInv, Sequential, Started
<1>4. Tokens' /\ Peers'
  BY <1>1, <1>2 DEF RecInv, Tokens, Peers, Counts
<1>5. Times'
  BY <1>1 DEF RecInv, Times
<1>6. LeftAlone'
  BY <1>1, <1>2 DEF RecInv, LeftAlone
<1> QED BY <1>3, <1>4, <1>5, <1>6 DEF RecInv

LEMMA ExitKeeps == ASSUME RecInv, Exit PROVE RecInv'
<1>1. /\ up' = "cleaning" /\ stage' = [q \in Robot |-> "cancelled"]
      /\ UNCHANGED <<token, logins, dropped, flag, turn, attempt, chan, peer, left, Held, backoff, own,
                     asleep, treated>>
  BY DEF Exit, cloudVars, watchVars, peerVars, Held
<1>2. Sequential'
  BY <1>1 DEF RecInv, Sequential, Stages
<1>3. Tokens' /\ Peers'
  BY <1>1 DEF RecInv, Tokens, Peers, Counts
<1>4. Times'
  BY <1>1 DEF RecInv, Times
<1>5. LeftAlone'
  BY <1>1 DEF LeftAlone
<1> QED BY <1>2, <1>3, <1>4, <1>5 DEF RecInv

LEMMA CleansUpKeeps == ASSUME RecInv, CleansUp PROVE RecInv'
<1>1. /\ up = "cleaning" /\ up' = "gone"
      /\ UNCHANGED <<token, logins, dropped, flag, turn, stage, attempt, backoff, own, asleep,
                     treated>>
  BY DEF CleansUp, cloudVars, watchVars
<1>2. PICK r \in Robot, gone \in {0, 1} :
          /\ gone <= Referred(r) /\ peer' = [peer EXCEPT ![r] = @ - gone]
          /\ left' = [left EXCEPT ![r] = @ + (Referred(r) - gone)]
          /\ chan' = [chan EXCEPT ![r] = "none"]
  BY DEF CleansUp
<1>3. \A q \in Robot : stage[q] = "cancelled"
  BY <1>1 DEF RecInv, Sequential
<1>4. Counts' /\ Held' = [Held EXCEPT ![r] = 0]
  <2>1. Referred(r) = Held[r] /\ Held[r] \in 0..1 /\ Held[r] <= peer[r]
    BY ReferredIsHeld DEF RecInv
  <2>2. Counts /\ peer[r] \in Nat /\ left[r] \in Nat /\ Held[r] = peer[r] - left[r]
    BY DEF RecInv, Peers, Counts, Held
  <2>3. /\ peer[r] - gone \in Nat /\ left[r] + (Held[r] - gone) \in Nat
        /\ (peer[r] - gone) - (left[r] + (Held[r] - gone)) = 0
    BY <1>2, <2>1, <2>2
  <2>4. /\ peer' = [peer EXCEPT ![r] = peer[r] - gone]
        /\ left' = [left EXCEPT ![r] = left[r] + (Held[r] - gone)]
    BY <1>2, <2>1
  <2>5. /\ Counts'
        /\ Held' = [Held EXCEPT ![r] = (peer[r] - gone) - (left[r] + (Held[r] - gone))]
    BY <2>2, <2>3, <2>4, PeersMove
  <2> QED BY <2>3, <2>5
<1>5. Sequential'
  BY <1>1, <1>2, <1>3, <1>4 DEF RecInv, Sequential, Peers
<1>6. Peers'
  BY <1>1, <1>2, <1>3, <1>4 DEF RecInv, Peers
<1>7. Tokens'
  BY <1>1 DEF RecInv, Tokens
<1>8. Times'
  BY <1>1 DEF RecInv, Times
<1>9. LeftAlone'
  BY <1>1 DEF RecInv, LeftAlone
<1> QED BY <1>5, <1>6, <1>7, <1>8, <1>9 DEF RecInv

LEMMA DropsKeeps == ASSUME RecInv, NEW r \in Robot, Drops(r) PROVE RecInv'
<1>1. /\ chan[r] = "open" /\ chan' = [chan EXCEPT ![r] = "closed"]
      /\ UNCHANGED <<token, logins, dropped, flag, turn, stage, attempt, peer, left, Held,
                     backoff, own, asleep, treated, up>>
  BY DEF Drops, cloudVars, watchVars, peerVars, Held
<1>2. chan' \in [Robot -> {"none", "open", "closed"}] /\ chan'[r] = "closed"
      /\ \A q \in Robot : q # r => chan'[q] = chan[q]
  BY <1>1 DEF RecInv, Peers
<1>3. Sequential'
  BY <1>1, <1>2 DEF RecInv, Sequential, Started
<1>4. Peers'
  BY <1>1, <1>2 DEF RecInv, Peers, Counts
<1>5. Tokens'
  BY <1>1 DEF RecInv, Tokens
<1>6. Times'
  BY <1>1 DEF RecInv, Times
<1>7. LeftAlone'
  BY <1>1 DEF RecInv, LeftAlone
<1> QED BY <1>3, <1>4, <1>5, <1>6, <1>7 DEF RecInv

(* The cloud's own steps, and no step at all. *)
LEMMA CloudKeeps ==
    ASSUME RecInv, CloudBlocks \/ CloudRelents \/ Expires \/ UNCHANGED linkingVars
    PROVE  RecInv'
<1>1. /\ UNCHANGED <<logins, dropped, flag, turn, stage, attempt, chan, peer, left, Held, backoff, own,
                     asleep, treated, up>>
      /\ token' = token \/ (token = "good" /\ token' = "expired")
  <2>1. CASE CloudBlocks
    BY <2>1 DEF CloudBlocks, cloudVars, watchVars, peerVars, Held
  <2>2. CASE CloudRelents
    BY <2>2 DEF CloudRelents, cloudVars, watchVars, peerVars, Held
  <2>3. CASE Expires
    BY <2>3 DEF Expires, watchVars, peerVars, Held
  <2>4. CASE UNCHANGED linkingVars
    BY <2>4 DEF linkingVars, cloudVars, watchVars, peerVars, Held
  <2> QED BY <2>1, <2>2, <2>3, <2>4
<1>2. Sequential'
  BY <1>1 DEF RecInv, Sequential, Started
<1>3. Tokens'
  BY <1>1 DEF RecInv, Tokens
<1>4. Peers'
  BY <1>1 DEF RecInv, Peers, Counts
<1>5. Times'
  BY <1>1 DEF RecInv, Times
<1>6. LeftAlone'
  BY <1>1 DEF RecInv, LeftAlone
<1> QED BY <1>2, <1>3, <1>4, <1>5, <1>6 DEF RecInv

LEMMA StepKeeps == RecInv /\ [ReconnectNext]_linkingVars => RecInv'
<1> SUFFICES ASSUME RecInv, [ReconnectNext]_linkingVars PROVE RecInv'
  OBVIOUS
<1>1. ASSUME NEW r \in Robot, Watching(r) PROVE RecInv'
  BY <1>1, WakesKeeps, NoticesKeeps, RedialsKeeps, NextAttemptKeeps, FirstConnectKeeps
     DEF Watching
<1>2. ASSUME NEW r \in Robot, Ends(r) PROVE RecInv'
  BY <1>2, OpensKeeps, EndsBadlyKeeps, RetryableKeeps DEF Ends
<1>3. ASSUME NEW r \in Robot, Drops(r) PROVE RecInv'
  BY <1>3, DropsKeeps
<1>4. CASE Exit
  BY <1>4, ExitKeeps
<1>5. CASE CleansUp
  BY <1>5, CleansUpKeeps
<1>6. CASE CloudBlocks \/ CloudRelents \/ Expires \/ UNCHANGED linkingVars
  BY <1>6, CloudKeeps
<1> QED BY <1>1, <1>2, <1>3, <1>4, <1>5, <1>6 DEF ReconnectNext

(* The invariant of the connections: one robot after the other at first,   *)
(* one token that has been paid for, one peer that belongs to a handshake  *)
(* or to an open channel.                                                  *)
THEOREM ReconnectInvariant == ReconnectSpec => []RecInv
<1>1. ReconnectInit => RecInv
  BY InitHolds
<1>2. RecInv /\ [ReconnectNext]_linkingVars => RecInv'
  BY StepKeeps
<1> QED BY <1>1, <1>2, PTL DEF ReconnectSpec

(* However the reconnects of any number of robots interleave, the account  *)
(* is asked for one token more than were dropped, at the most.             *)
THEOREM TokenIsReused == ReconnectSpec => []OneLoginPerToken
<1>1. RecInv => OneLoginPerToken
  BY DEF RecInv, Tokens, OneLoginPerToken
<1> QED BY <1>1, ReconnectInvariant, PTL

(* For any number of attempts, and whatever attempt failed how: besides    *)
(* the peers whose disconnect raised, a robot has at most one, and it is   *)
(* never dialled over one that was not told to close.                      *)
THEOREM NeverBusyWithUs == ReconnectSpec => []OnePeer
<1>1. RecInv => OnePeer
  BY DEF RecInv, Peers, Counts, Held, OnePeer
<1> QED BY <1>1, ReconnectInvariant, PTL

(* A robot that the cloud refused is left alone for half a minute, however *)
(* many other robots reset the shared flag meanwhile.                      *)
THEOREM RefusedIsLeftAlone == ReconnectSpec => []LeftAlone
<1>1. RecInv => LeftAlone
  BY DEF RecInv
<1> QED BY <1>1, ReconnectInvariant, PTL
==============================================================================
