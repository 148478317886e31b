---------------------------- MODULE Subscriptions ----------------------------
(***************************************************************************)
(* How the robot client comes to hear the topics of the bridge: one        *)
(* Foxglove socket with a reader of its own, and threads that ask for a    *)
(* camera image or for detections, each of which subscribes at the first   *)
(* request and never again.  Yaw is asked for like detections are.         *)
(*                                                                         *)
(* The check for a topic, the new id, the callback and the reading of the  *)
(* channel are one step: there is no call between them at which CPython    *)
(* (3.10 and later) lets another thread run.                               *)
(***************************************************************************)
EXTENDS Integers, Sequences

CONSTANTS
    Asker,       \* the threads that ask
    MaxOffers,   \* bound on the channels the server advertises
    MaxIds,      \* bound on the subscriptions
    MaxInbox     \* bound on the frames that wait to be read

ASSUME SubsAssumption == {MaxOffers, MaxIds, MaxInbox} \subseteq Nat

Need == {"camera", "detections"}
Feed == {"compressed", "raw", "detected"}
NoChannel == 0

(* _grab_live_frame and _ensure_detection_subscribed: what is tried first. *)
FirstFeed(n) == IF n = "camera" THEN "compressed" ELSE "detected"

VARIABLES
    socket,    \* "none", "open", "failed", "lost", "over"
    offer,     \* the server's channel of a feed, or NoChannel
    offers,    \* how many it has advertised
    inbox,     \* frames the reader has not read
    table,     \* _server_channels
    asked,     \* _subscriptions by id, with the channel of the request
    sending,   \* ids whose _go() the loop has not run
    wire,      \* requests the server has not read
    feeding,   \* ids it serves
    flag,      \* _camera_subscribed, _detection_subscribed
    held,      \* whether a frame, or detections, have been decoded
    asking     \* what a thread is about: need, feed, at, id

subsServer == <<offer, offers, feeding>>
subsVars == <<socket, subsServer, inbox, table, asked, sending, wire, flag, held, asking>>

Idle == [need |-> "camera", feed |-> "compressed", at |-> "idle", id |-> 0]

SubsInit ==
    /\ socket = "none"
    /\ offer = [f \in Feed |-> NoChannel] /\ offers = 0 /\ feeding = {}
    /\ inbox = << >> /\ table = [f \in Feed |-> NoChannel]
    /\ asked = << >> /\ sending = << >> /\ wire = << >>
    /\ flag = [n \in Need |-> FALSE] /\ held = [n \in Need |-> FALSE]
    /\ asking = [a \in Asker |-> Idle]

-----------------------------------------------------------------------------
(* The socket.                                                             *)

(* connect: the server tells a new client which channels it has. *)
Dial ==
    /\ socket = "none"
    /\ \/ /\ socket' = "open"
          /\ inbox' = << [op |-> "advertise", channels |-> offer] >>
       \/ socket' = "failed" /\ UNCHANGED inbox
    /\ UNCHANGED <<subsServer, table, asked, sending, wire, flag, held, asking>>

(* The reader ends, and the client goes on as connected; or disconnect().  *)
Hang(state) ==
    /\ socket = "open"
    /\ socket' = state
    /\ inbox' = << >> /\ wire' = << >> /\ feeding' = {}
    /\ UNCHANGED <<offer, offers, table, asked, sending, flag, held, asking>>

(* _on_camera_frame decodes by the topic it was configured for, which the  *)
(* raw images of the fallback are not.                                     *)
Decodes(f) == f # "raw"

(* _reader, _on_text, _on_binary: one frame. *)
ReadOne ==
    /\ socket = "open" /\ inbox # << >>
    /\ inbox' = Tail(inbox)
    /\ LET frame == Head(inbox) IN
       \/ /\ frame.op = "advertise"
          /\ table' = [f \in Feed |-> IF frame.channels[f] = NoChannel THEN table[f]
                                      ELSE frame.channels[f]]
          /\ UNCHANGED held
       \/ /\ frame.op = "unadvertise"
          /\ table' = [f \in Feed |-> IF table[f] = frame.channel THEN NoChannel ELSE table[f]]
          /\ UNCHANGED held
       \/ /\ frame.op = "data"
          /\ held' = [n \in Need |-> \/ held[n]
                                     \/ asked[frame.id].need = n /\ Decodes(asked[frame.id].feed)]
          /\ UNCHANGED table
    /\ UNCHANGED <<socket, subsServer, asked, sending, wire, flag, asking>>

(* The loop runs _go(): a socket that is gone makes the call raise, if it  *)
(* still waits.                                                            *)
SendOne ==
    /\ sending # << >>
    /\ sending' = Tail(sending)
    /\ wire' = IF socket = "open" THEN Append(wire, Head(sending)) ELSE wire
    /\ asking' = [a \in Asker |->
                     IF asking[a].at # "sending" \/ asking[a].id # Head(sending) THEN asking[a]
                     ELSE IF socket = "open" THEN [asking[a] EXCEPT !.at = "sent"] ELSE Idle]
    /\ UNCHANGED <<socket, subsServer, inbox, table, asked, flag, held>>

-----------------------------------------------------------------------------
(* A thread that asks.                                                     *)

(* A need whose flag is set is not asked for again. *)
Begin(a, n) ==
    /\ socket \in {"open", "lost"} /\ asking[a].at = "idle" /\ ~flag[n]
    /\ asking' = [asking EXCEPT ![a] =
                     [need |-> n, feed |-> FirstFeed(n), at |-> "waiting", id |-> 0]]
    /\ UNCHANGED <<socket, subsServer, inbox, table, asked, sending, wire, flag, held>>

(* subscribe() finds the topic, at once or while it waits. *)
Ask(a) ==
    /\ asking[a].at = "waiting" /\ table[asking[a].feed] # NoChannel
    /\ Len(asked) < MaxIds
    /\ asked' = Append(asked, [need |-> asking[a].need, feed |-> asking[a].feed,
                               channel |-> table[asking[a].feed]])
    /\ sending' = Append(sending, Len(asked) + 1)
    /\ asking' = [asking EXCEPT ![a].at = "sending", ![a].id = Len(asked) + 1]
    /\ UNCHANGED <<socket, subsServer, inbox, table, wire, flag, held>>

(* Mutant: the flag is set once the attempt is over, however it ended. *)
NoFeedForGood(a) ==
    /\ asking[a].at = "waiting" /\ table[asking[a].feed] = NoChannel
    /\ asking' = [asking EXCEPT ![a] =
                     IF @.feed = "compressed" THEN [@ EXCEPT !.feed = "raw"] ELSE Idle]
    /\ flag' = [flag EXCEPT ![asking[a].need] = @ \/ asking[a].feed # "compressed"]
    /\ UNCHANGED <<socket, subsServer, inbox, table, asked, sending, wire, held>>

(* RuntimeError at the deadline: the camera falls back to the raw topic,   *)
(* whose absence leaves the flag for the next request.                     *)
NoFeed(a) ==
    /\ asking[a].at = "waiting" /\ table[asking[a].feed] = NoChannel
    /\ asking' = [asking EXCEPT ![a] =
                     IF @.feed = "compressed" THEN [@ EXCEPT !.feed = "raw"] ELSE Idle]
    /\ UNCHANGED <<socket, subsServer, inbox, table, asked, sending, wire, flag, held>>

(* result(timeout=2) raises and leaves the send to the loop. *)
SendTimesOut(a) ==
    /\ asking[a].at = "sending"
    /\ asking' = [asking EXCEPT ![a] = Idle]
    /\ UNCHANGED <<socket, subsServer, inbox, table, asked, sending, wire, flag, held>>

Subscribed(a) ==
    /\ asking[a].at = "sent"
    /\ flag' = [flag EXCEPT ![asking[a].need] = TRUE]
    /\ asking' = [asking EXCEPT ![a] = Idle]
    /\ UNCHANGED <<socket, subsServer, inbox, table, asked, sending, wire, held>>

-----------------------------------------------------------------------------
(* The server: the topic of a node that starts, ends and starts again gets *)
(* a new channel each time.                                                *)

ToClient(frame) == inbox' = IF socket = "open" THEN Append(inbox, frame) ELSE inbox

Offer(f) ==
    /\ offer[f] = NoChannel /\ offers < MaxOffers /\ Len(inbox) < MaxInbox
    /\ offers' = offers + 1
    /\ offer' = [offer EXCEPT ![f] = offers + 1]
    /\ ToClient([op |-> "advertise",
                 channels |-> [g \in Feed |-> IF g = f THEN offers + 1 ELSE NoChannel]])
    /\ UNCHANGED <<socket, feeding, table, asked, sending, wire, flag, held, asking>>

Withdraw(f) ==
    /\ offer[f] # NoChannel /\ Len(inbox) < MaxInbox
    /\ offer' = [offer EXCEPT ![f] = NoChannel]
    /\ feeding' = {id \in feeding : asked[id].channel # offer[f]}
    /\ ToClient([op |-> "unadvertise", channel |-> offer[f]])
    /\ UNCHANGED <<socket, offers, table, asked, sending, wire, flag, held, asking>>

Offered(channel) == \E f \in Feed : offer[f] = channel

Serve ==
    /\ wire # << >>
    /\ wire' = Tail(wire)
    /\ feeding' = IF Offered(asked[Head(wire)].channel) THEN feeding \cup {Head(wire)} ELSE feeding
    /\ UNCHANGED <<socket, offer, offers, inbox, table, asked, sending, flag, held, asking>>

Message(id) ==
    /\ Len(inbox) < MaxInbox
    /\ ToClient([op |-> "data", id |-> id])
    /\ UNCHANGED <<socket, subsServer, table, asked, sending, wire, flag, held, asking>>

SubsNext ==
    \/ Dial \/ Hang("lost") \/ Hang("over") \/ ReadOne \/ SendOne \/ Serve
    \/ \E a \in Asker : \/ \E n \in Need : Begin(a, n)
                        \/ Ask(a) \/ NoFeed(a) \/ SendTimesOut(a) \/ Subscribed(a)
    \/ \E f \in Feed : Offer(f) \/ Withdraw(f)
    \/ \E id \in feeding : Message(id)

SubsTypeOK ==
    /\ socket \in {"none", "open", "failed", "lost", "over"}
    /\ offer \in [Feed -> 0..MaxOffers] /\ table \in [Feed -> 0..MaxOffers]
    /\ offers \in 0..MaxOffers
    /\ asked \in Seq([need : Need, feed : Feed, channel : 1..MaxOffers])
    /\ \A q \in {sending, wire} : q \in Seq(DOMAIN asked)
    /\ feeding \subseteq DOMAIN asked
    /\ flag \in [Need -> BOOLEAN] /\ held \in [Need -> BOOLEAN]
    /\ asking \in [Asker -> [need : Need, feed : Feed, id : 0..MaxIds,
                             at : {"idle", "waiting", "sending", "sent"}]]

(* The server serves the subscription, or will read it; or the channel that *)
(* it was for is gone.                                                     *)
Covered(id) ==
    \/ id \in feeding
    \/ \E i \in DOMAIN wire : wire[i] = id
    \/ ~Offered(asked[id].channel)

(* What the client has stopped asking for, it hears: while the socket is   *)
(* open, a need whose flag is set has a subscription that is covered.      *)
(* That no failed, timed-out or overtaken attempt sets the flag is what    *)
(* the retry of the next request rests on.                                 *)
HeardUnlessWithdrawn ==
    socket = "open" =>
        \A n \in Need : flag[n] => \E id \in DOMAIN asked : asked[id].need = n /\ Covered(id)

=============================================================================
