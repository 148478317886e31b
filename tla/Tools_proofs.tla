---------------------------- MODULE Tools_proofs ----------------------------
(***************************************************************************)
(* Two things that the threads of the agent's tools share.  The            *)
(* subscriptions of the robot client: what it has stopped asking for it    *)
(* hears, or the channel was withdrawn.  The simulated dog: the posture    *)
(* that it reports is the pose of its legs.  For any number of threads,    *)
(* channels, subscriptions and tools, and gestures of any length.          *)
(***************************************************************************)
EXTENDS Subscriptions, SimDog, SequenceTheorems, TLAPS

(* The subscriptions.                                                      *)

SubsSpec == SubsInit /\ [][SubsNext]_subsVars

Frames == [op : {"advertise"}, channels : [Feed -> Nat]]
            \cup [op : {"unadvertise"}, channel : Nat]
            \cup [op : {"data"}, id : Nat]
Request == [need : Need, feed : Feed, channel : Nat]
Asking == [need : Need, feed : Feed, id : Nat, at : {"idle", "waiting", "sending", "sent"}]

(* Channels: each has one feed, and every one that the client has heard of *)
(* is among those the server has offered, so that the next one is new.     *)
Channels ==
    /\ socket \in {"none", "open", "failed", "lost", "over"}
    /\ offers \in Nat
    /\ offer \in [Feed -> Nat]
    /\ \A f \in Feed : offer[f] <= offers
    /\ \A f, g \in Feed : offer[f] = offer[g] /\ offer[f] # NoChannel => f = g
    /\ inbox \in Seq(Frames)
    /\ \A i \in 1..Len(inbox) : inbox[i].op = "advertise" =>
          \A f \in Feed : inbox[i].channels[f] <= offers
    /\ table \in [Feed -> Nat]
    /\ \A f \in Feed : table[f] <= offers

Requests ==
    /\ asked \in Seq(Request)
    /\ \A id \in 1..Len(asked) : asked[id].channel # NoChannel /\ asked[id].channel <= offers
    /\ sending \in Seq(Nat) /\ wire \in Seq(Nat) /\ feeding \subseteq Nat
    /\ flag \in [Need -> BOOLEAN]
    /\ asking \in [Asker -> Asking]

(* A thread that has its request on the way asks for its own need. *)
OwnRequest ==
    \A a \in Asker : asking[a].at \in {"sending", "sent"} =>
        /\ asking[a].id \in DOMAIN asked
        /\ asked[asking[a].id].need = asking[a].need

(* Nothing has been asked before the socket is there. *)
NotYet ==
    socket = "none" => /\ \A n \in Need : ~flag[n]
                       /\ \A a \in Asker : asking[a].at = "idle"

(* A thread whose send came back will set the flag. *)
SentIsCovered ==
    socket = "open" => \A a \in Asker : asking[a].at = "sent" => Covered(asking[a].id)

SubsInv == Channels /\ Requests /\ OwnRequest /\ NotYet /\ SentIsCovered /\ HeardUnlessWithdrawn

-----------------------------------------------------------------------------
LEMMA InitHolds == SubsInit => SubsInv
<1> SUFFICES ASSUME SubsInit PROVE SubsInv
  OBVIOUS
<1>1. Channels
  BY DEF SubsInit, Channels, NoChannel, Frames
<1>2. Requests
  BY DEF SubsInit, Requests, Idle, Asking, Need, Feed
<1>3. OwnRequest /\ NotYet /\ SentIsCovered
  BY DEF SubsInit, OwnRequest, NotYet, SentIsCovered, Idle
<1>4. HeardUnlessWithdrawn
  BY DEF SubsInit, HeardUnlessWithdrawn
<1> QED BY <1>1, <1>2, <1>3, <1>4 DEF SubsInv

-----------------------------------------------------------------------------
(* The channels.                                                           *)

(* Steps that touch neither the server's channels, nor its frames, nor the *)
(* client's table.                                                         *)
LEMMA ChannelsUntouched ==
    ASSUME Channels, UNCHANGED <<socket, offer, offers, inbox, table>> PROVE Channels'
  BY DEF Channels

LEMMA DialChannels == ASSUME Channels, Dial PROVE Channels'
<1>1. CASE inbox' = << [op |-> "advertise", channels |-> offer] >> /\ socket' = "open"
  <2> DEFINE frame == [op |-> "advertise", channels |-> offer]
  <2>1. frame \in Frames
    BY DEF Channels, Frames
  <2>2. inbox' \in Seq(Frames) /\ Len(inbox') = 1 /\ inbox'[1] = frame
    BY <1>1, <2>1
  <2> QED BY <1>1, <2>2 DEF Dial, Channels, subsServer
<1>2. CASE socket' = "failed" /\ UNCHANGED inbox
  BY <1>2 DEF Dial, Channels, subsServer
<1> QED BY <1>1, <1>2 DEF Dial

LEMMA HangChannels == ASSUME Channels, NEW s \in {"lost", "over"}, Hang(s) PROVE Channels'
  BY DEF Hang, Channels

LEMMA ReadChannels == ASSUME Channels, ReadOne PROVE Channels'
<1>1. /\ inbox' \in Seq(Frames) /\ Len(inbox') = Len(inbox) - 1
      /\ \A i \in 1..Len(inbox') : i + 1 \in 1..Len(inbox) /\ inbox'[i] = inbox[i + 1]
      /\ 1 \in 1..Len(inbox) /\ Head(inbox) = inbox[1] /\ inbox[1] \in Frames
  BY DEF ReadOne, Channels
<1>2. table' \in [Feed -> Nat] /\ \A f \in Feed : table'[f] <= offers
  <2>1. CASE /\ Head(inbox).op = "advertise"
             /\ table' = [f \in Feed |-> IF Head(inbox).channels[f] = NoChannel THEN table[f]
                                         ELSE Head(inbox).channels[f]]
    <3>1. Head(inbox).channels \in [Feed -> Nat]
      BY <1>1, <2>1 DEF Frames
    <3>2. \A f \in Feed : Head(inbox).channels[f] <= offers
      BY <1>1, <2>1 DEF Channels
    <3> QED BY <2>1, <3>1, <3>2 DEF Channels
  <2>2. CASE table' = [f \in Feed |-> IF table[f] = Head(inbox).channel THEN NoChannel
                                      ELSE table[f]]
    BY <2>2 DEF Channels, NoChannel
  <2>3. CASE UNCHANGED table
    BY <2>3 DEF Channels
  <2> QED BY <2>1, <2>2, <2>3 DEF ReadOne
<1>3. \A i \in 1..Len(inbox') : inbox'[i].op = "advertise" =>
          \A f \in Feed : inbox'[i].channels[f] <= offers
  BY <1>1 DEF Channels
<1>4. UNCHANGED <<socket, offer, offers>>
  BY DEF ReadOne, subsServer
<1> QED BY <1>1, <1>2, <1>3, <1>4 DEF Channels

(* A frame of the server's that names only what it has offered. *)
LEMMA ToClientChannels ==
    ASSUME Channels, NEW frame \in Frames, ToClient(frame), offers' \in Nat, offers <= offers',
           frame.op = "advertise" => \A f \in Feed : frame.channels[f] <= offers'
    PROVE  /\ inbox' \in Seq(Frames)
           /\ \A i \in 1..Len(inbox') : inbox'[i].op = "advertise" =>
                 \A f \in Feed : inbox'[i].channels[f] <= offers'
<1>1. \A i \in 1..Len(inbox) : inbox[i].op = "advertise" =>
          \A f \in Feed : inbox[i].channels[f] <= offers'
  <2> SUFFICES ASSUME NEW i \in 1..Len(inbox), inbox[i].op = "advertise", NEW f \in Feed
               PROVE  inbox[i].channels[f] <= offers'
    OBVIOUS
  <2>1. inbox[i] \in Frames
    BY DEF Channels
  <2>2. inbox[i].channels \in [Feed -> Nat]
    BY <2>1 DEF Frames
  <2>3. inbox[i].channels[f] <= offers
    BY DEF Channels
  <2> QED BY <2>2, <2>3 DEF Channels
<1>2. CASE inbox' = Append(inbox, frame)
  <2>1. /\ inbox' \in Seq(Frames) /\ Len(inbox') = Len(inbox) + 1
        /\ \A i \in 1..Len(inbox) : inbox'[i] = inbox[i]
        /\ inbox'[Len(inbox) + 1] = frame
    BY <1>2 DEF Channels
  <2>2. SUFFICES ASSUME NEW i \in 1..Len(inbox'), inbox'[i].op = "advertise", NEW f \in Feed
                 PROVE  inbox'[i].channels[f] <= offers'
    BY <2>1
  <2>3. Len(inbox) \in Nat
    BY DEF Channels
  <2>4. CASE i = Len(inbox) + 1
    BY <2>1, <2>2, <2>4
  <2>5. CASE i \in 1..Len(inbox)
    BY <1>1, <2>1, <2>2, <2>5
  <2> QED BY <2>1, <2>3, <2>4, <2>5
<1>3. CASE inbox' = inbox
  BY <1>1, <1>3 DEF Channels
<1> QED BY <1>2, <1>3 DEF ToClient

LEMMA OfferChannels == ASSUME Channels, NEW f \in Feed, Offer(f) PROVE Channels'
<1> DEFINE frame == [op |-> "advertise",
                     channels |-> [g \in Feed |-> IF g = f THEN offers + 1 ELSE NoChannel]]
<1>1. offers' = offers + 1 /\ offer' = [offer EXCEPT ![f] = offers + 1]
  BY DEF Offer
<1>2. frame \in Frames /\ \A g \in Feed : frame.channels[g] <= offers'
  BY <1>1 DEF Channels, Frames, NoChannel
<1>3. /\ inbox' \in Seq(Frames)
      /\ \A i \in 1..Len(inbox') : inbox'[i].op = "advertise" =>
            \A g \in Feed : inbox'[i].channels[g] <= offers'
  <2>1. ToClient(frame) /\ offers' \in Nat /\ offers <= offers'
    BY <1>1 DEF Offer, Channels
  <2> HIDE DEF frame
  <2> QED BY <1>2, <2>1, ToClientChannels
<1>4. UNCHANGED <<socket, table>>
  BY DEF Offer
<1>5. /\ offer' \in [Feed -> Nat]
      /\ \A g \in Feed : offer'[g] <= offers'
      /\ \A g, h \in Feed : offer'[g] = offer'[h] /\ offer'[g] # NoChannel => g = h
  BY <1>1 DEF Channels
<1>6. \A g \in Feed : table'[g] <= offers'
  BY <1>1, <1>4 DEF Channels
<1> QED BY <1>1, <1>3, <1>4, <1>5, <1>6 DEF Channels

LEMMA WithdrawChannels == ASSUME Channels, NEW f \in Feed, Withdraw(f) PROVE Channels'
<1> DEFINE frame == [op |-> "unadvertise", channel |-> offer[f]]
<1>1. offers' = offers /\ offer' = [offer EXCEPT ![f] = NoChannel]
  BY DEF Withdraw
<1>2. frame \in Frames /\ frame.op # "advertise"
  BY DEF Channels, Frames
<1>3. /\ inbox' \in Seq(Frames)
      /\ \A i \in 1..Len(inbox') : inbox'[i].op = "advertise" =>
            \A g \in Feed : inbox'[i].channels[g] <= offers'
  <2>1. ToClient(frame) /\ offers' \in Nat /\ offers <= offers'
    BY <1>1 DEF Withdraw, Channels
  <2> QED BY <1>2, <2>1, ToClientChannels
<1>4. UNCHANGED <<socket, table>>
  BY DEF Withdraw
<1>5. /\ offer' \in [Feed -> Nat]
      /\ \A g \in Feed : offer'[g] <= offers'
      /\ \A g, h \in Feed : offer'[g] = offer'[h] /\ offer'[g] # NoChannel => g = h
  BY <1>1 DEF Channels, NoChannel
<1> QED BY <1>1, <1>3, <1>4, <1>5 DEF Channels

LEMMA MessageChannels == ASSUME Channels, NEW id \in Nat, Message(id) PROVE Channels'
<1> DEFINE frame == [op |-> "data", id |-> id]
<1>1. frame \in Frames /\ frame.op # "advertise"
  BY DEF Frames
<1>2. UNCHANGED <<socket, offer, offers, table>>
  BY DEF Message, subsServer
<1>3. ToClient(frame) /\ offers' \in Nat /\ offers <= offers'
  BY <1>2 DEF Message, Channels
<1>4. /\ inbox' \in Seq(Frames)
      /\ \A i \in 1..Len(inbox') : inbox'[i].op = "advertise" =>
            \A g \in Feed : inbox'[i].channels[g] <= offers'
  BY <1>1, <1>3, ToClientChannels
<1> QED BY <1>2, <1>4 DEF Channels
-----------------------------------------------------------------------------
(* The requests.                                                           *)

(* What has been asked stays asked; what is covered stays covered. *)
Persists ==
    \A id \in DOMAIN asked : /\ id \in DOMAIN asked'
                             /\ asked'[id] = asked[id]
                             /\ socket = "open" /\ socket' = "open" /\ Covered(id) => Covered(id)'

(* Steps that leave the subscriptions and the server's channels alone. *)
LEMMA UntouchedPersists ==
    ASSUME UNCHANGED <<asked, wire, feeding, offer>> PROVE Persists
  BY DEF Persists, Covered, Offered

LEMMA HangPersists == ASSUME NEW s \in {"lost", "over"}, Hang(s) PROVE Persists
  BY DEF Hang, Persists

LEMMA AskPersists == ASSUME Requests, NEW a \in Asker, Ask(a) PROVE Persists
<1>1. \A id \in DOMAIN asked : id \in DOMAIN asked' /\ asked'[id] = asked[id]
  BY DEF Ask, Requests
<1>2. UNCHANGED <<wire, feeding, offer>>
  BY DEF Ask, subsServer
<1> QED BY <1>1, <1>2 DEF Persists, Covered, Offered

LEMMA SendPersists == ASSUME Requests, SendOne PROVE Persists
<1>1. UNCHANGED <<asked, feeding, offer>>
  BY DEF SendOne, subsServer
<1>2. \A i \in DOMAIN wire : i \in DOMAIN wire' /\ wire'[i] = wire[i]
  <2>1. sending # << >> /\ Head(sending) \in Nat
    BY DEF SendOne, Requests
  <2> QED BY <2>1 DEF SendOne, Requests
<1> QED BY <1>1, <1>2 DEF Persists, Covered, Offered

(* A request that the server reads is served, or its channel is gone. *)
LEMMA ServePersists == ASSUME Requests, Serve PROVE Persists
<1>1. UNCHANGED <<asked, offer>>
  BY DEF Serve
<1>2. SUFFICES ASSUME NEW id \in DOMAIN asked, Covered(id) PROVE Covered(id)'
  BY <1>1 DEF Persists
<1>3. CASE id \in feeding \/ ~Offered(asked[id].channel)
  BY <1>1, <1>2, <1>3 DEF Serve, Covered, Offered
<1>4. CASE \E i \in DOMAIN wire : wire[i] = id
  <2>1. PICK i \in DOMAIN wire : wire[i] = id
    BY <1>4
  <2>2. CASE i = 1
    <3>1. Head(wire) = id
      BY <2>1, <2>2 DEF Requests
    <3> QED BY <1>1, <3>1 DEF Serve, Covered, Offered
  <2>3. CASE i # 1
    <3>1. i - 1 \in DOMAIN wire' /\ wire'[i - 1] = id
      BY <2>1, <2>3 DEF Serve, Requests
    <3> QED BY <3>1 DEF Covered
  <2> QED BY <2>2, <2>3
<1> QED BY <1>2, <1>3, <1>4 DEF Covered

(* A new channel is none that anybody has asked for. *)
LEMMA OfferPersists ==
    ASSUME Channels, Requests, NEW f \in Feed, Offer(f) PROVE Persists
<1>1. UNCHANGED <<asked, feeding, wire>> /\ offer' = [offer EXCEPT ![f] = offers + 1]
  BY DEF Offer
<1>2. SUFFICES ASSUME NEW id \in DOMAIN asked, ~Offered(asked[id].channel)
               PROVE  ~(\E g \in Feed : offer'[g] = asked[id].channel)
  BY <1>1 DEF Persists, Covered, Offered
<1>3. asked[id].channel \in Nat /\ asked[id].channel <= offers
  <2>1. asked[id] \in Request /\ id \in 1..Len(asked)
    BY <1>2 DEF Requests
  <2> QED BY <2>1 DEF Requests, Request
<1>4. asked[id].channel # offers + 1
  BY <1>3 DEF Channels
<1>5. \A g \in Feed : offer'[g] = offer[g] \/ offer'[g] = offers + 1
  BY <1>1 DEF Channels
<1> QED BY <1>2, <1>4, <1>5 DEF Offered

(* What a withdrawal takes from the served ones has lost its channel. *)
LEMMA WithdrawPersists ==
    ASSUME Channels, Requests, NEW f \in Feed, Withdraw(f) PROVE Persists
<1>1. /\ UNCHANGED <<asked, wire>> /\ offer' = [offer EXCEPT ![f] = NoChannel]
      /\ offer[f] # NoChannel
      /\ feeding' = {id \in feeding : asked[id].channel # offer[f]}
  BY DEF Withdraw
<1>2. \A id \in DOMAIN asked : asked[id].channel # NoChannel
  BY DEF Requests
<1>3. SUFFICES ASSUME NEW id \in DOMAIN asked, Covered(id) PROVE Covered(id)'
  BY <1>1 DEF Persists
<1>4. CASE \E i \in DOMAIN wire : wire[i] = id
  BY <1>1, <1>4 DEF Covered
<1>5. CASE ~Offered(asked[id].channel)
  <2>1. ~(\E g \in Feed : offer'[g] = asked[id].channel)
    BY <1>1, <1>2, <1>5 DEF Offered, Channels
  <2> QED BY <1>1, <2>1 DEF Covered, Offered
<1>6. CASE id \in feeding /\ asked[id].channel # offer[f]
  BY <1>1, <1>6 DEF Covered
<1>7. CASE id \in feeding /\ asked[id].channel = offer[f]
  <2>1. ~(\E g \in Feed : offer'[g] = asked[id].channel)
    BY <1>1, <1>7 DEF Channels
  <2> QED BY <1>1, <2>1 DEF Covered, Offered
<1> QED BY <1>3, <1>4, <1>5, <1>6, <1>7 DEF Covered

LEMMA DialPersists == ASSUME Dial PROVE Persists
  BY DEF Dial, Persists, subsServer

-----------------------------------------------------------------------------
(* What the threads and the flags hold.                                    *)

(* A thread goes on with the request it has, and no flag is set. *)
SameRequests ==
    /\ flag' = flag
    /\ asking' \in [Asker -> Asking]
    /\ \A a \in Asker :
          /\ asking'[a].at \in {"sending", "sent"} =>
                /\ asking[a].at \in {"sending", "sent"}
                /\ asking'[a].id = asking[a].id /\ asking'[a].need = asking[a].need
          /\ asking'[a].at = "sent" => asking[a].at = "sent"
          /\ asking[a].at = "idle" => asking'[a].at = "idle"

LEMMA OwnKept ==
    ASSUME OwnRequest, Persists,
           \A a \in Asker : asking'[a].at \in {"sending", "sent"} =>
               /\ asking[a].at \in {"sending", "sent"}
               /\ asking'[a].id = asking[a].id /\ asking'[a].need = asking[a].need
    PROVE  OwnRequest'
<1> SUFFICES ASSUME NEW a \in Asker, asking'[a].at \in {"sending", "sent"}
             PROVE  /\ asking'[a].id \in DOMAIN asked'
                    /\ asked'[asking'[a].id].need = asking'[a].need
  BY DEF OwnRequest
<1>1. asking[a].id \in DOMAIN asked /\ asked[asking[a].id].need = asking[a].need
  BY DEF OwnRequest
<1> QED BY <1>1 DEF Persists

LEMMA HeardKept ==
    ASSUME HeardUnlessWithdrawn, Persists, flag' = flag, socket' = "open" => socket = "open"
    PROVE  HeardUnlessWithdrawn'
<1> SUFFICES ASSUME socket' = "open", NEW n \in Need, flag[n]
             PROVE  \E id \in DOMAIN asked' : asked'[id].need = n /\ Covered(id)'
  BY DEF HeardUnlessWithdrawn
<1>1. PICK id \in DOMAIN asked : asked[id].need = n /\ Covered(id)
  BY DEF HeardUnlessWithdrawn
<1> QED BY <1>1 DEF Persists

LEMMA SentKept ==
    ASSUME SentIsCovered, OwnRequest, Persists, socket' = "open" => socket = "open",
           NEW a \in Asker, asking[a].at = "sent", asking'[a].id = asking[a].id
    PROVE  socket' = "open" => Covered(asking[a].id)'
<1> SUFFICES ASSUME socket' = "open" PROVE Covered(asking[a].id)'
  OBVIOUS
<1>1. PICK id \in DOMAIN asked : id = asking[a].id
  BY DEF OwnRequest
<1>2. Covered(id)
  BY <1>1 DEF SentIsCovered
<1>3. Covered(id)'
  BY <1>2 DEF Persists
<1>4. asking'[a].id = id
  BY <1>1
<1> QED BY <1>3, <1>4 DEF Covered

(* A step at which no thread is answered and no socket opens. *)
LEMMA StepKept ==
    ASSUME SubsInv, Persists, SameRequests, socket' = "open" => socket = "open",
           socket' = "none" => socket = "none"
    PROVE  OwnRequest' /\ NotYet' /\ SentIsCovered' /\ HeardUnlessWithdrawn'
<1>1. OwnRequest'
  BY OwnKept DEF SubsInv, SameRequests
<1>2. NotYet'
  BY DEF SubsInv, NotYet, SameRequests
<1>3. SentIsCovered'
  <2> SUFFICES ASSUME socket' = "open", NEW a \in Asker, asking'[a].at = "sent"
               PROVE  Covered(asking[a].id)'
    BY DEF SentIsCovered
  <2>1. asking[a].at = "sent" /\ asking'[a].id = asking[a].id
    BY DEF SameRequests
  <2> QED BY <2>1, SentKept DEF SubsInv
<1>4. HeardUnlessWithdrawn'
  BY HeardKept DEF SubsInv, SameRequests
<1> QED BY <1>1, <1>2, <1>3, <1>4

LEMMA ServerKept ==
    ASSUME SubsInv, Persists, UNCHANGED <<asking, flag>>, socket' = "open" => socket = "open",
           socket' = "none" => socket = "none"
    PROVE  OwnRequest' /\ NotYet' /\ SentIsCovered' /\ HeardUnlessWithdrawn'
<1>1. SameRequests
  BY DEF SubsInv, Requests, SameRequests
<1> QED BY <1>1, StepKept

-----------------------------------------------------------------------------
(* The steps.                                                              *)

LEMMA DialKeeps == ASSUME SubsInv, Dial PROVE SubsInv'
<1>1. Channels'
  BY DialChannels DEF SubsInv
<1>2. UNCHANGED <<offers, feeding, asked, sending, wire, flag, asking>>
  BY DEF Dial, subsServer
<1>3. Requests'
  BY <1>2 DEF SubsInv, Requests
<1>4. (\A n \in Need : ~flag'[n]) /\ (\A a \in Asker : asking'[a].at = "idle")
  BY <1>2 DEF SubsInv, NotYet, Dial
<1>5. OwnRequest' /\ NotYet' /\ SentIsCovered' /\ HeardUnlessWithdrawn'
  BY <1>4 DEF OwnRequest, NotYet, SentIsCovered, HeardUnlessWithdrawn
<1> QED BY <1>1, <1>3, <1>5 DEF SubsInv

LEMMA HangKeeps == ASSUME SubsInv, NEW s \in {"lost", "over"}, Hang(s) PROVE SubsInv'
<1>1. Channels' /\ Persists
  BY HangChannels, HangPersists DEF SubsInv
<1>2. UNCHANGED <<offers, asked, sending, flag, asking>> /\ wire' = << >> /\ feeding' = {}
  BY DEF Hang
<1>3. Requests'
  BY <1>2 DEF SubsInv, Requests
<1>4. socket' = s
  BY DEF Hang
<1>5. OwnRequest' /\ NotYet' /\ SentIsCovered' /\ HeardUnlessWithdrawn'
  BY <1>1, <1>2, <1>4, ServerKept
<1> QED BY <1>1, <1>3, <1>5 DEF SubsInv

LEMMA ReadKeeps == ASSUME SubsInv, ReadOne PROVE SubsInv'
<1>1. UNCHANGED <<socket, offer, offers, feeding, asked, sending, wire, flag, asking>>
  BY DEF ReadOne, subsServer
<1>2. Channels' /\ Persists
  BY <1>1, ReadChannels, UntouchedPersists DEF SubsInv
<1>3. Requests'
  BY <1>1 DEF SubsInv, Requests
<1>4. OwnRequest' /\ NotYet' /\ SentIsCovered' /\ HeardUnlessWithdrawn'
  BY <1>1, <1>2, ServerKept
<1> QED BY <1>2, <1>3, <1>4 DEF SubsInv

LEMMA ServeKeeps == ASSUME SubsInv, Serve PROVE SubsInv'
<1>1. UNCHANGED <<socket, offer, offers, inbox, table, asked, sending, flag, asking>>
  BY DEF Serve
<1>2. Channels' /\ Persists
  BY <1>1, ChannelsUntouched, ServePersists DEF SubsInv
<1>3. Head(wire) \in Nat /\ wire' \in Seq(Nat) /\ feeding' \subseteq Nat
  <2>1. wire \in Seq(Nat) /\ wire # << >> /\ feeding \subseteq Nat
    BY DEF SubsInv, Requests, Serve
  <2>2. Head(wire) \in Nat /\ Tail(wire) \in Seq(Nat)
    BY <2>1
  <2>3. feeding' = feeding \/ feeding' = feeding \cup {Head(wire)}
    BY DEF Serve
  <2> QED BY <2>1, <2>2, <2>3 DEF Serve
<1>4. Requests'
  BY <1>1, <1>3 DEF SubsInv, Requests
<1>5. OwnRequest' /\ NotYet' /\ SentIsCovered' /\ HeardUnlessWithdrawn'
  BY <1>1, <1>2, ServerKept
<1> QED BY <1>2, <1>4, <1>5 DEF SubsInv

LEMMA OfferKeeps == ASSUME SubsInv, NEW f \in Feed, Offer(f) PROVE SubsInv'
<1>1. /\ UNCHANGED <<socket, feeding, asked, sending, wire, flag, asking>>
      /\ offers' = offers + 1
  BY DEF Offer
<1>2. Channels' /\ Persists
  BY OfferChannels, OfferPersists DEF SubsInv
<1>3. Requests'
  <2>1. \A id \in 1..Len(asked) : asked[id].channel <= offers'
    <3> SUFFICES ASSUME NEW id \in 1..Len(asked) PROVE asked[id].channel <= offers'
      OBVIOUS
    <3>1. asked[id] \in Request /\ asked[id].channel <= offers /\ offers \in Nat
      BY DEF SubsInv, Requests, Channels
    <3> QED BY <1>1, <3>1 DEF Request
  <2> QED BY <1>1, <2>1 DEF SubsInv, Requests
<1>4. OwnRequest' /\ NotYet' /\ SentIsCovered' /\ HeardUnlessWithdrawn'
  BY <1>1, <1>2, ServerKept
<1> QED BY <1>2, <1>3, <1>4 DEF SubsInv

LEMMA WithdrawKeeps == ASSUME SubsInv, NEW f \in Feed, Withdraw(f) PROVE SubsInv'
<1>1. /\ UNCHANGED <<socket, offers, asked, sending, wire, flag, asking>>
      /\ feeding' \subseteq feeding
  BY DEF Withdraw
<1>2. Channels' /\ Persists
  BY WithdrawChannels, WithdrawPersists DEF SubsInv
<1>3. Requests'
  BY <1>1 DEF SubsInv, Requests
<1>4. OwnRequest' /\ NotYet' /\ SentIsCovered' /\ HeardUnlessWithdrawn'
  BY <1>1, <1>2, ServerKept
<1> QED BY <1>2, <1>3, <1>4 DEF SubsInv

LEMMA MessageKeeps == ASSUME SubsInv, NEW id \in Nat, Message(id) PROVE SubsInv'
<1>1. UNCHANGED <<socket, offer, offers, feeding, asked, sending, wire, flag, asking>>
  BY DEF Message, subsServer
<1>2. Channels' /\ Persists
  BY <1>1, MessageChannels, UntouchedPersists DEF SubsInv
<1>3. Requests'
  BY <1>1 DEF SubsInv, Requests
<1>4. OwnRequest' /\ NotYet' /\ SentIsCovered' /\ HeardUnlessWithdrawn'
  BY <1>1, <1>2, ServerKept
<1> QED BY <1>2, <1>3, <1>4 DEF SubsInv

(* The steps of a thread other than those that its request moves at. *)
LEMMA ThreadKeeps ==
    ASSUME SubsInv, SameRequests,
           UNCHANGED <<socket, subsServer, inbox, table, asked, sending, wire>>
    PROVE  SubsInv'
<1>1. UNCHANGED <<socket, offer, offers, feeding, inbox, table, asked, sending, wire>>
  BY DEF subsServer
<1>2. Channels' /\ Persists
  BY <1>1, ChannelsUntouched, UntouchedPersists DEF SubsInv
<1>3. Requests'
  BY <1>1 DEF SubsInv, Requests, SameRequests
<1>4. OwnRequest' /\ NotYet' /\ SentIsCovered' /\ HeardUnlessWithdrawn'
  BY <1>1, <1>2, StepKept
<1> QED BY <1>2, <1>3, <1>4 DEF SubsInv

LEMMA NoFeedKeeps == ASSUME SubsInv, NEW a \in Asker, NoFeed(a) PROVE SubsInv'
<1>1. SameRequests
  BY DEF SubsInv, Requests, NoFeed, SameRequests, Asking, Idle, Need, Feed
<1> QED BY <1>1, ThreadKeeps DEF NoFeed

LEMMA SendTimesOutKeeps == ASSUME SubsInv, NEW a \in Asker, SendTimesOut(a) PROVE SubsInv'
<1>1. SameRequests
  BY DEF SubsInv, Requests, SendTimesOut, SameRequests, Asking, Idle, Need, Feed
<1> QED BY <1>1, ThreadKeeps DEF SendTimesOut

(* A thread begins only on a socket that has been opened. *)
LEMMA BeginKeeps ==
    ASSUME SubsInv, NEW a \in Asker, NEW n \in Need, Begin(a, n) PROVE SubsInv'
<1>1. /\ UNCHANGED <<socket, offer, offers, feeding, inbox, table, asked, sending, wire, flag>>
      /\ socket # "none"
  BY DEF Begin, subsServer
<1>2. Channels' /\ Persists
  BY <1>1, ChannelsUntouched, UntouchedPersists DEF SubsInv
<1>3. /\ asking' \in [Asker -> Asking]
      /\ \A b \in Asker : asking'[b] = asking[b] \/ asking'[b].at = "waiting"
  BY DEF SubsInv, Requests, Begin, FirstFeed, Asking, Need, Feed
<1>4. Requests'
  BY <1>1, <1>3 DEF SubsInv, Requests
<1>5. OwnRequest'
  BY <1>2, <1>3, OwnKept DEF SubsInv
<1>6. NotYet'
  BY <1>1 DEF NotYet
<1>7. SentIsCovered'
  <2> SUFFICES ASSUME socket' = "open", NEW b \in Asker, asking'[b].at = "sent"
               PROVE  Covered(asking[b].id)'
    BY DEF SentIsCovered
  <2>1. asking'[b] = asking[b]
    BY <1>3
  <2> QED BY <1>1, <1>2, <2>1, SentKept DEF SubsInv
<1>8. HeardUnlessWithdrawn'
  BY <1>1, <1>2, HeardKept DEF SubsInv
<1> QED BY <1>2, <1>4, <1>5, <1>6, <1>7, <1>8 DEF SubsInv

(* A request takes the next id. *)
LEMMA AskKeeps == ASSUME SubsInv, NEW a \in Asker, Ask(a) PROVE SubsInv'
<1> DEFINE request == [need |-> asking[a].need, feed |-> asking[a].feed,
                       channel |-> table[asking[a].feed]]
           new == Len(asked) + 1
<1>1. /\ UNCHANGED <<socket, offer, offers, feeding, inbox, table, wire, flag>>
      /\ asked' = Append(asked, request) /\ sending' = Append(sending, new)
      /\ asking[a].at = "waiting" /\ table[asking[a].feed] # NoChannel
  BY DEF Ask, subsServer
<1>2. Channels' /\ Persists
  BY <1>1, ChannelsUntouched, AskPersists DEF SubsInv
<1>3. asking[a] \in Asking /\ asked \in Seq(Request) /\ new \in Nat
  BY DEF SubsInv, Requests
<1>4. request \in Request /\ request.channel # NoChannel /\ request.channel <= offers
  BY <1>1, <1>3 DEF SubsInv, Channels, Request, Asking
<1>5. asking' = [asking EXCEPT ![a] = [asking[a] EXCEPT !.at = "sending", !.id = new]]
  BY <1>3 DEF Ask
<1>6. /\ asking' \in [Asker -> Asking]
      /\ \A b \in Asker : b # a => asking'[b] = asking[b]
      /\ asking'[a].at = "sending" /\ asking'[a].id = new /\ asking'[a].need = request.need
  BY <1>3, <1>5 DEF SubsInv, Requests, Asking
<1> HIDE DEF request
<1>7. /\ asked' \in Seq(Request) /\ Len(asked') = new /\ new \in DOMAIN asked'
      /\ asked'[new] = request
      /\ \A id \in 1..Len(asked) : asked'[id] = asked[id]
  BY <1>1, <1>3, <1>4
<1>8. Requests'
  <2>1. sending' \in Seq(Nat)
    BY <1>1, <1>3 DEF SubsInv, Requests
  <2>2. \A id \in 1..Len(asked') : asked'[id].channel # NoChannel /\ asked'[id].channel <= offers
    <3> SUFFICES ASSUME NEW id \in 1..Len(asked')
                 PROVE  asked'[id].channel # NoChannel /\ asked'[id].channel <= offers
      OBVIOUS
    <3>1. CASE id = new
      BY <1>4, <1>7, <3>1
    <3>2. CASE id \in 1..Len(asked)
      BY <1>7, <3>2 DEF SubsInv, Requests
    <3> QED BY <1>3, <1>7, <3>1, <3>2
  <2> QED BY <1>1, <1>6, <1>7, <2>1, <2>2 DEF SubsInv, Requests
<1>9. OwnRequest'
  <2> SUFFICES ASSUME NEW b \in Asker, asking'[b].at \in {"sending", "sent"}
               PROVE  /\ asking'[b].id \in DOMAIN asked'
                      /\ asked'[asking'[b].id].need = asking'[b].need
    BY DEF OwnRequest
  <2>1. CASE b = a
    BY <1>6, <1>7, <2>1
  <2>2. CASE b # a
    BY <1>2, <1>6, <2>2 DEF SubsInv, OwnRequest, Persists
  <2> QED BY <2>1, <2>2
<1>10. NotYet'
  BY <1>1 DEF SubsInv, NotYet
<1>11. SentIsCovered'
  <2> SUFFICES ASSUME socket' = "open", NEW b \in Asker, asking'[b].at = "sent"
               PROVE  Covered(asking[b].id)'
    BY DEF SentIsCovered
  <2>1. asking'[b] = asking[b]
    BY <1>6
  <2> QED BY <1>1, <1>2, <2>1, SentKept DEF SubsInv
<1>12. HeardUnlessWithdrawn'
  BY <1>1, <1>2, HeardKept DEF SubsInv
<1> QED BY <1>2, <1>8, <1>9, <1>10, <1>11, <1>12 DEF SubsInv

(* What the loop sends is on the wire when the thread is told. *)
LEMMA SendKeeps == ASSUME SubsInv, SendOne PROVE SubsInv'
<1> DEFINE first == Head(sending)
<1>1. /\ UNCHANGED <<socket, offer, offers, feeding, inbox, table, asked, flag>>
      /\ sending # << >> /\ sending' = Tail(sending)
      /\ wire' = IF socket = "open" THEN Append(wire, first) ELSE wire
  BY DEF SendOne, subsServer
<1>2. Channels' /\ Persists
  BY <1>1, ChannelsUntouched, SendPersists DEF SubsInv
<1>3. sending \in Seq(Nat) /\ wire \in Seq(Nat) /\ first \in Nat
  <2>1. sending \in Seq(Nat) /\ wire \in Seq(Nat)
    BY DEF SubsInv, Requests
  <2> QED BY <1>1, <2>1
<1>4. sending' \in Seq(Nat) /\ wire' \in Seq(Nat)
  BY <1>1, <1>3
<1>5. /\ asking' \in [Asker -> Asking]
      /\ \A b \in Asker : \/ asking'[b] = asking[b]
                          \/ asking[b].at = "sending" /\ asking'[b].at = "idle"
                          \/ /\ asking[b].at = "sending" /\ asking[b].id = first
                             /\ socket = "open"
                             /\ asking'[b] = [asking[b] EXCEPT !.at = "sent"]
  <2>1. \A b \in Asker : asking[b] \in Asking
    BY DEF SubsInv, Requests
  <2>2. asking' = [b \in Asker |->
                     IF asking[b].at # "sending" \/ asking[b].id # first THEN asking[b]
                     ELSE IF socket = "open" THEN [asking[b] EXCEPT !.at = "sent"] ELSE Idle]
    BY DEF SendOne
  <2>3. \A b \in Asker : [asking[b] EXCEPT !.at = "sent"] \in Asking
    BY <2>1 DEF Asking
  <2>4. Idle \in Asking /\ Idle.at = "idle"
    BY DEF Idle, Asking, Need, Feed
  <2> HIDE DEF first
  <2>5. ASSUME NEW b \in Asker
        PROVE  \/ asking'[b] = asking[b]
               \/ asking[b].at = "sending" /\ asking'[b] = Idle
               \/ /\ asking[b].at = "sending" /\ asking[b].id = first /\ socket = "open"
                  /\ asking'[b] = [asking[b] EXCEPT !.at = "sent"]
    <3>1. asking'[b] = IF asking[b].at # "sending" \/ asking[b].id # first THEN asking[b]
                       ELSE IF socket = "open" THEN [asking[b] EXCEPT !.at = "sent"] ELSE Idle
      BY <2>2
    <3> QED BY <3>1, ZenonT(30)
  <2>6. asking' \in [Asker -> Asking]
    <3>1. DOMAIN asking' = Asker /\ asking' = [b \in Asker |-> asking'[b]]
      BY <2>2
    <3>2. \A b \in Asker : asking'[b] \in Asking
      BY <2>1, <2>3, <2>4, <2>5
    <3> QED BY <3>1, <3>2
  <2> QED BY <2>4, <2>5, <2>6
<1>6. Requests'
  BY <1>1, <1>4, <1>5 DEF SubsInv, Requests
<1>7. OwnRequest'
  <2>1. \A b \in Asker : asking[b] \in Asking
    BY DEF SubsInv, Requests
  <2>2. \A b \in Asker : asking'[b].at \in {"sending", "sent"} =>
            /\ asking[b].at \in {"sending", "sent"}
            /\ asking'[b].id = asking[b].id /\ asking'[b].need = asking[b].need
    BY <1>5, <2>1 DEF Asking
  <2> QED BY <1>2, <2>2, OwnKept DEF SubsInv
<1>8. NotYet'
  BY <1>1, <1>5 DEF SubsInv, NotYet
<1>9. SentIsCovered'
  <2> SUFFICES ASSUME socket' = "open", NEW b \in Asker, asking'[b].at = "sent"
               PROVE  Covered(asking[b].id)'
    BY DEF SentIsCovered
  <2>1. CASE asking'[b] = asking[b]
    BY <1>1, <1>2, <2>1, SentKept DEF SubsInv
  <2>2. CASE /\ asking[b].at = "sending" /\ asking[b].id = first
             /\ asking'[b] = [asking[b] EXCEPT !.at = "sent"]
    <3>1. asking'[b].id = first
      BY <2>2 DEF SubsInv, Requests, Asking
    <3>2. Len(wire) + 1 \in DOMAIN wire' /\ wire'[Len(wire) + 1] = first
      BY <1>1, <1>3
    <3> HIDE DEF first
    <3> QED BY <3>1, <3>2 DEF Covered
  <2> QED BY <1>5, <2>1, <2>2
<1>10. HeardUnlessWithdrawn'
  BY <1>1, <1>2, HeardKept DEF SubsInv
<1> QED BY <1>2, <1>6, <1>7, <1>8, <1>9, <1>10 DEF SubsInv

(* The flag is set by a thread whose own request is covered. *)
LEMMA SubscribedKeeps == ASSUME SubsInv, NEW a \in Asker, Subscribed(a) PROVE SubsInv'
<1>1. /\ UNCHANGED <<socket, offer, offers, feeding, inbox, table, asked, sending, wire>>
      /\ flag' = [flag EXCEPT ![asking[a].need] = TRUE]
      /\ asking' = [asking EXCEPT ![a] = Idle]
      /\ asking[a].at = "sent"
  BY DEF Subscribed, subsServer
<1>2. Channels' /\ Persists
  BY <1>1, ChannelsUntouched, UntouchedPersists DEF SubsInv
<1>3. /\ asking' \in [Asker -> Asking] /\ flag' \in [Need -> BOOLEAN]
      /\ \A b \in Asker : asking'[b] = asking[b] \/ asking'[b].at = "idle"
  BY <1>1 DEF SubsInv, Requests, Asking, Idle, Need, Feed
<1>4. Requests'
  BY <1>1, <1>3 DEF SubsInv, Requests
<1>5. OwnRequest'
  BY <1>2, <1>3, OwnKept DEF SubsInv
<1>6. NotYet'
  BY <1>1 DEF SubsInv, NotYet
<1>7. SentIsCovered'
  <2> SUFFICES ASSUME socket' = "open", NEW b \in Asker, asking'[b].at = "sent"
               PROVE  Covered(asking[b].id)'
    BY DEF SentIsCovered
  <2>1. asking'[b] = asking[b]
    BY <1>3
  <2> QED BY <1>1, <1>2, <2>1, SentKept DEF SubsInv
<1>8. HeardUnlessWithdrawn'
  <2> SUFFICES ASSUME socket' = "open", NEW n \in Need, flag'[n]
               PROVE  \E id \in DOMAIN asked' : asked'[id].need = n /\ Covered(id)'
    BY DEF HeardUnlessWithdrawn
  <2>1. CASE n = asking[a].need
    <3>1. PICK id \in DOMAIN asked : id = asking[a].id /\ asked[id].need = n
      BY <1>1, <2>1 DEF SubsInv, OwnRequest
    <3>2. Covered(id)
      BY <1>1, <3>1 DEF SubsInv, SentIsCovered
    <3> QED BY <1>1, <1>2, <3>1, <3>2 DEF Persists
  <2>2. CASE flag[n]
    <3>1. PICK id \in DOMAIN asked : asked[id].need = n /\ Covered(id)
      BY <1>1, <2>2 DEF SubsInv, HeardUnlessWithdrawn
    <3> QED BY <1>1, <1>2, <3>1 DEF Persists
  <2>3. n # asking[a].need => flag'[n] = flag[n]
    BY <1>1 DEF SubsInv, Requests
  <2> QED BY <2>1, <2>2, <2>3
<1> QED BY <1>2, <1>4, <1>5, <1>6, <1>7, <1>8 DEF SubsInv

-----------------------------------------------------------------------------
LEMMA StepKeeps == SubsInv /\ [SubsNext]_subsVars => SubsInv'
<1> SUFFICES ASSUME SubsInv, [SubsNext]_subsVars PROVE SubsInv'
  OBVIOUS
<1>1. CASE Dial
  BY <1>1, DialKeeps
<1>2. CASE Hang("lost")
  BY <1>2, HangKeeps
<1>3. CASE Hang("over")
  BY <1>3, HangKeeps
<1>4. CASE ReadOne
  BY <1>4, ReadKeeps
<1>5. CASE SendOne
  BY <1>5, SendKeeps
<1>6. CASE Serve
  BY <1>6, ServeKeeps
<1>7. ASSUME NEW a \in Asker, NEW n \in Need, Begin(a, n) PROVE SubsInv'
  BY <1>7, BeginKeeps
<1>8. ASSUME NEW a \in Asker, Ask(a) PROVE SubsInv'
  BY <1>8, AskKeeps
<1>9. ASSUME NEW a \in Asker, NoFeed(a) PROVE SubsInv'
  BY <1>9, NoFeedKeeps
<1>10. ASSUME NEW a \in Asker, SendTimesOut(a) PROVE SubsInv'
  BY <1>10, SendTimesOutKeeps
<1>11. ASSUME NEW a \in Asker, Subscribed(a) PROVE SubsInv'
  BY <1>11, SubscribedKeeps
<1>12. ASSUME NEW f \in Feed, Offer(f) PROVE SubsInv'
  BY <1>12, OfferKeeps
<1>13. ASSUME NEW f \in Feed, Withdraw(f) PROVE SubsInv'
  BY <1>13, WithdrawKeeps
<1>14. ASSUME NEW id \in feeding, Message(id) PROVE SubsInv'
  <2>1. id \in Nat
    BY DEF SubsInv, Requests
  <2> QED BY <1>14, <2>1, MessageKeeps
<1>15. CASE UNCHANGED subsVars
  <2>1. SameRequests
    BY <1>15 DEF subsVars, SubsInv, Requests, SameRequests
  <2> QED BY <1>15, <2>1, ThreadKeeps DEF subsVars
<1> QED BY <1>1, <1>2, <1>3, <1>4, <1>5, <1>6, <1>7, <1>8, <1>9, <1>10, <1>11, <1>12, <1>13,
           <1>14, <1>15 DEF SubsNext

(* The invariant of the subscriptions: channels are told apart for good,   *)
(* requests name channels that were offered, and a thread whose request    *)
(* was sent is on its way to set a flag that is covered.                   *)
THEOREM SubscriptionsInvariant == SubsSpec => []SubsInv
<1>1. SubsInit => SubsInv
  BY InitHolds
<1>2. SubsInv /\ [SubsNext]_subsVars => SubsInv'
  BY StepKeeps
<1> QED BY <1>1, <1>2, PTL DEF SubsSpec

(* What the client has stopped asking for, it hears, unless the channel it *)
(* asked for is gone: however many threads ask at once, whatever times out *)
(* and whenever the topics come and go.                                    *)
THEOREM NeverDeafForGood == SubsSpec => []HeardUnlessWithdrawn
<1>1. SubsInv => HeardUnlessWithdrawn
  BY DEF SubsInv
<1> QED BY <1>1, SubscriptionsInvariant, PTL
-----------------------------------------------------------------------------
(***************************************************************************)
(* The simulated dog.                                                      *)
(***************************************************************************)

SimSpec == SimInit /\ [][SimNext]_simVars

(* A walk that goes on has the twist the loop last saw.                    *)
WalkIsSeen ==
    walking => looked \in {"on", "crossed"} \/ (phase = "drive" /\ looked = "ended")

(* It goes on with the label of a dog that stands, but in the step in      *)
(* which a gesture has ended under it: there the loop has yet to look.     *)
WalkStands ==
    walking /\ playing = NoGesture =>
        label = "standing" \/ (phase = "drive" /\ looked = "ended")

SimInv == SimTypeOK /\ LabelIsPose /\ WalkIsSeen /\ WalkStands

-----------------------------------------------------------------------------
LEMMA EndsOnLegs == \A g \in Gesture : EndsAs(g) \in {"standing", "sitting", "lying"}
  BY DEF Gesture, EndsAs

(* The dog starts planted in its stance, at rest. *)
LEMMA DogInitHolds == SimInit => SimInv
<1> SUFFICES ASSUME SimInit PROVE SimInv
  OBVIOUS
<1>1. 0 \in 0..(MaxSteps - 1)
  BY SimAssumption
<1>2. SimTypeOK
  BY <1>1 DEF SimInit, SimTypeOK
<1>3. LabelIsPose /\ WalkIsSeen /\ WalkStands
  BY DEF SimInit, LabelIsPose, WalkIsSeen, WalkStands
<1> QED BY <1>2, <1>3 DEF SimInv

ToolStep(t) ==
    \/ \E g \in Gesture : Play(t, g)
    \/ ClearDone(t) \/ MotionWaited(t) \/ Walk(t) \/ WalkReturns(t)

(* What tools do, and the clock, leaves the label and the legs alone. *)
LEMMA ToolsKeep ==
  ASSUME SimInv, (\E t \in Tool : ToolStep(t)) \/ TwistExpires \/ HaltWalk
  PROVE  SimInv'
<1>1. UNCHANGED <<playing, steps, label, legs, walking, driven, phase, loop, looked>>
  BY DEF ToolStep, Play, ClearDone, MotionWaited, Walk, WalkReturns, TwistExpires,
         HaltWalk, simLoopVars
<1>2. (LabelIsPose /\ WalkIsSeen /\ WalkStands)'
  BY <1>1 DEF SimInv, LabelIsPose, WalkIsSeen, WalkStands
<1>3. queued' \in Gesture \cup {NoGesture}
  BY DEF ToolStep, Play, ClearDone, MotionWaited, Walk, WalkReturns, TwistExpires,
         HaltWalk, simCmdVars, SimInv, SimTypeOK
<1>4. twist' \in BOOLEAN /\ inTime' \in BOOLEAN
  BY Zenon DEF ToolStep, Play, ClearDone, MotionWaited, Walk, WalkReturns, TwistExpires,
         HaltWalk, simCmdVars, SimInv, SimTypeOK
<1>5. done' \in BOOLEAN
  BY Zenon DEF ToolStep, Play, ClearDone, MotionWaited, Walk, WalkReturns, TwistExpires,
         HaltWalk, SimInv, SimTypeOK
<1>6. doing' \in [Tool -> {"nothing", "queueing", "waiting", "walking"}]
  BY DEF ToolStep, Play, ClearDone, MotionWaited, Walk, WalkReturns, TwistExpires,
         HaltWalk, SimInv, SimTypeOK
<1>7. SimTypeOK'
  BY <1>1, <1>3, <1>4, <1>5, <1>6 DEF SimInv, SimTypeOK
<1> QED BY <1>2, <1>7 DEF SimInv

(* A gesture starts, perhaps under a walk. *)
LEMMA TakeKeeps == ASSUME SimInv, TakeGesture PROVE SimInv'
<1> USE DEF SimInv
<1>1. SimTypeOK'
  <2>1. CASE queued = NoGesture
    BY <2>1 DEF TakeGesture, SimTypeOK
  <2>2. CASE queued # NoGesture
    <3>1. playing' = queued /\ steps' = 0 /\ done' = FALSE
      BY <2>2 DEF TakeGesture, Start
    <3>2. 0 \in 0..(MaxSteps - 1)
      BY SimAssumption
    <3> QED BY <3>1, <3>2 DEF TakeGesture, SimTypeOK
  <2> QED BY <2>1, <2>2
<1>2. playing' = NoGesture => playing = NoGesture
  BY DEF TakeGesture, Start
<1>3. (LabelIsPose /\ WalkIsSeen /\ WalkStands)'
  BY <1>2 DEF TakeGesture, LabelIsPose, WalkIsSeen, WalkStands
<1> QED BY <1>1, <1>3

(* A gesture that ends sets both the label and the legs. *)
LEMMA PlayKeeps == ASSUME SimInv, PlayOn PROVE SimInv'
<1> USE DEF SimInv, simCmdVars
<1>1. SimTypeOK'
  <2>1. CASE playing = NoGesture
    BY <2>1 DEF PlayOn, SimTypeOK
  <2>2. CASE playing # NoGesture /\ steps + 1 < MaxSteps
    <3>1. steps' \in 0..(MaxSteps - 1)
      BY <2>2, SimAssumption DEF PlayOn, SimTypeOK
    <3> QED BY <2>2, <3>1, SimAssumption DEF PlayOn, SimTypeOK
  <2>3. CASE playing # NoGesture /\ steps + 1 = MaxSteps
    <3>1. /\ playing' = NoGesture /\ steps' = 0 /\ done' = TRUE
          /\ label' = EndsAs(playing) /\ legs' = EndsAs(playing)
          /\ looked' \in {"ended", "off"}
      BY <2>3, SimAssumption DEF PlayOn, SimTypeOK
    <3>2. 0 \in 0..(MaxSteps - 1)
      BY SimAssumption
    <3>3. EndsAs(playing) \in {"standing", "sitting", "lying"}
      BY <2>3, EndsOnLegs DEF SimTypeOK
    <3> QED BY <3>1, <3>2, <3>3 DEF PlayOn, SimTypeOK
  <2> QED BY <2>1, <2>2, <2>3 DEF PlayOn
<1>2. phase = "play" /\ phase' = "drive" /\ walking' = walking
  BY DEF PlayOn
<1>3. CASE playing' = NoGesture /\ playing # NoGesture
  <2>1. /\ label' = legs'
        /\ looked' = IF looked \in {"on", "crossed"} THEN "ended" ELSE "off"
    BY <1>3 DEF PlayOn
  <2> QED BY <1>1, <1>2, <1>3, <2>1 DEF LabelIsPose, WalkIsSeen, WalkStands
<1>4. CASE ~(playing' = NoGesture /\ playing # NoGesture)
  <2>1. playing' = NoGesture => label' = label /\ legs' = legs /\ playing = NoGesture
    BY <1>4 DEF PlayOn
  <2>2. looked' = looked
    BY <1>4 DEF PlayOn, SimTypeOK, NoGesture
  <2> QED BY <1>1, <1>2, <2>1, <2>2 DEF LabelIsPose, WalkIsSeen, WalkStands
<1> QED BY <1>3, <1>4

(* A walk that is over leaves the label "standing" to legs that stand, or  *)
(* ends with the gesture under it.                                         *)
LEMMA DriveKeeps == ASSUME SimInv, Drive PROVE SimInv'
<1> USE DEF SimInv, simCmdVars
<1>0. phase = "drive" /\ phase' = "take" /\ legs' = legs
  BY DEF Drive
<1>1. CASE WalkIsOver
  <2>1. SimTypeOK'
    BY <1>1 DEF Drive, WalkIsOver, SimTypeOK
  <2>2. /\ ~walking' /\ ~driven' /\ playing' = playing
        /\ label' = IF walking THEN "standing" ELSE label
        /\ looked' # "crossed" => looked # "crossed" /\ ~(walking /\ looked = "ended")
    BY <1>1 DEF WalkIsOver
  <2> QED BY <1>0, <2>1, <2>2 DEF LabelIsPose, WalkIsSeen, WalkStands
<1>2. CASE SeesTwist /\ GestureGoesFirst
  <2>1. SimTypeOK'
    BY <1>2 DEF Drive, SeesTwist, GestureGoesFirst, SimTypeOK
  <2>2. /\ playing' = playing /\ playing # NoGesture /\ ~driven'
        /\ looked' \in {"on", "crossed"}
    BY <1>2 DEF SeesTwist, GestureGoesFirst
  <2> QED BY <1>0, <2>1, <2>2 DEF LabelIsPose, WalkIsSeen, WalkStands
<1>3. CASE SeesTwist /\ StandFirst
  <2>1. "stand_up" \in Gesture /\ "stand_up" # NoGesture /\ 0 \in 0..(MaxSteps - 1)
    BY SimAssumption DEF Gesture, NoGesture
  <2>2. /\ playing' = "stand_up" /\ steps' = 0 /\ done' = FALSE /\ ~driven'
        /\ driven' \in BOOLEAN /\ looked' \in {"on", "crossed"}
    BY <1>3 DEF SeesTwist, StandFirst, Start
  <2>3. SimTypeOK'
    BY <1>3, <2>1, <2>2 DEF Drive, StandFirst, SimTypeOK
  <2> QED BY <1>0, <2>1, <2>2, <2>3 DEF LabelIsPose, WalkIsSeen, WalkStands
<1>4. CASE SeesTwist /\ DriveBase
  <2>1. SimTypeOK'
    BY <1>4 DEF Drive, SeesTwist, DriveBase, SimTypeOK
  <2>2. /\ playing' = NoGesture /\ playing = NoGesture
        /\ label' = "standing" /\ label = "standing"
        /\ looked' = IF looked = "crossed" THEN looked ELSE "on"
    BY <1>4 DEF SeesTwist, DriveBase
  <2> QED BY <1>0, <2>1, <2>2 DEF LabelIsPose, WalkIsSeen, WalkStands
<1> QED BY <1>1, <1>2, <1>3, <1>4 DEF Drive

LEMMA DogStepKeeps == SimInv /\ [SimNext]_simVars => SimInv'
<1> SUFFICES ASSUME SimInv, [SimNext]_simVars PROVE SimInv'
  OBVIOUS
<1>1. CASE (\E t \in Tool : ToolStep(t)) \/ TwistExpires \/ HaltWalk
  BY <1>1, ToolsKeep
<1>3. CASE TakeGesture
  BY <1>3, TakeKeeps
<1>4. CASE PlayOn
  BY <1>4, PlayKeeps
<1>5. CASE Drive
  BY <1>5, DriveKeeps
<1>6. CASE LoopEnds("fault") \/ LoopEnds("closed")
  BY <1>6 DEF LoopEnds, SimInv, simLoopVars, simCmdVars, SimTypeOK, LabelIsPose,
              WalkIsSeen, WalkStands
<1>7. CASE UNCHANGED simVars
  BY <1>7 DEF simVars, SimInv, simLoopVars, simCmdVars, SimTypeOK, LabelIsPose,
              WalkIsSeen, WalkStands
<1> QED BY <1>1, <1>3, <1>4, <1>5, <1>6, <1>7 DEF SimNext, ToolStep

(* The invariant above holds throughout, in every order of gestures,       *)
(* walks and steps of the loop.                                            *)
THEOREM DogInvariant == SimSpec => []SimInv
  BY DogInitHolds, DogStepKeeps, PTL DEF SimSpec

(* The reported posture is the pose of the legs, and the base moves only   *)
(* when they stand, whatever tools ask for at the same time, but for the   *)
(* walk and the gesture that end in one step: _pose_label decides for      *)
(* _active_twist.                                                          *)
THEOREM PostureIsTrue == SimSpec => []LabelIsPose
<1>1. SimInv => LabelIsPose
  BY DEF SimInv
<1> QED BY DogInvariant, <1>1, PTL
=============================================================================
