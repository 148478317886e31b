--------------------------- MODULE Notifications ---------------------------
(***************************************************************************)
(* The channel by which background behaviours make the agent speak         *)
(* (voice_agent/notifications.py) and its reader, NotificationInput of     *)
(* voice_agent/session.py.                                                 *)
(*                                                                         *)
(* The greeter and the search each notify from their own thread; a full    *)
(* queue makes notify() three steps, put, get, put, and every step takes   *)
(* the queue's lock by itself.  One reader polls on an executor's thread,  *)
(* and gives the agent what it polled after the rest of a gap of a second, *)
(* in which a notify() that has begun is over.  An event is named by its   *)
(* behaviour and its number.                                               *)
(***************************************************************************)
EXTENDS Integers, Sequences, SequencesExt

CONSTANTS
    Behaviour,  \* the threads that notify
    Capacity,   \* _MAX_PENDING
    MaxEvents,  \* bound: events per behaviour
    NoEvent     \* the reader holds nothing

ASSUME NotificationsAssumption ==
    /\ Capacity \in Nat \ {0}
    /\ MaxEvents \in Nat
    /\ NoEvent \notin [by : Behaviour, n : Nat]

VARIABLES
    events,   \* _queue
    made,     \* events each behaviour has begun to notify
    step,     \* where each behaviour is in notify()
    polled,   \* the event the reader holds while it waits for the gap
    spoken    \* events given to the agent

eventVars == <<events, made, step, polled, spoken>>

Event == [by : Behaviour, n : Nat]
Pending(b) == [by |-> b, n |-> made[b]]

EventsInit ==
    /\ events = << >>
    /\ made = [b \in Behaviour |-> 0]
    /\ step = [b \in Behaviour |-> "idle"]
    /\ polled = NoEvent
    /\ spoken = << >>

(* notify(), the first put: it returns unless the queue is full. *)
Notify(b) ==
    /\ step[b] = "idle" /\ made[b] < MaxEvents
    /\ made' = [made EXCEPT ![b] = @ + 1]
    /\ IF Len(events) < Capacity
       THEN events' = Append(events, Pending(b)') /\ UNCHANGED step
       ELSE step' = [step EXCEPT ![b] = "full"] /\ UNCHANGED events
    /\ UNCHANGED <<polled, spoken>>

(* get_nowait: the stalest goes; an empty queue ends notify(). *)
DropStalest(b) ==
    /\ step[b] = "full"
    /\ events' = IF events = << >> THEN events ELSE Tail(events)
    /\ step' = [step EXCEPT ![b] = IF events = << >> THEN "idle" ELSE "room"]
    /\ UNCHANGED <<made, polled, spoken>>

(* The second put: a queue that was filled again ends notify(). *)
PutAgain(b) ==
    /\ step[b] = "room"
    /\ events' = IF Len(events) < Capacity THEN Append(events, Pending(b)) ELSE events
    /\ step' = [step EXCEPT ![b] = "idle"]
    /\ UNCHANGED <<made, polled, spoken>>

(* Mutant: an event is polled only to make room. *)
PollWhenFull ==
    /\ polled = NoEvent /\ Len(events) = Capacity
    /\ polled' = Head(events)
    /\ events' = Tail(events)
    /\ UNCHANGED <<made, step, spoken>>

(* Mutant: the newest event is told first. *)
PollNewest ==
    /\ polled = NoEvent /\ events # << >>
    /\ polled' = Last(events)
    /\ events' = Front(events)
    /\ UNCHANGED <<made, step, spoken>>

(* poll(). *)
Poll ==
    /\ polled = NoEvent /\ events # << >>
    /\ polled' = Head(events)
    /\ events' = Tail(events)
    /\ UNCHANGED <<made, step, spoken>>

(* The rest of __call__, after the gap, which is nothing if the last event *)
(* was spoken more than _MIN_GAP ago.                                      *)
Emit ==
    /\ polled # NoEvent
    /\ spoken' = Append(spoken, polled)
    /\ polled' = NoEvent
    /\ UNCHANGED <<events, made, step>>

NotifyStep(b) == Notify(b) \/ DropStalest(b) \/ PutAgain(b)
Reader == Poll \/ Emit
EventsNext == (\E b \in Behaviour : NotifyStep(b)) \/ Reader

EventsTypeOK ==
    /\ events \in Seq(Event) /\ Len(events) <= Capacity
    /\ made \in [Behaviour -> Nat]
    /\ step \in [Behaviour -> {"idle", "full", "room"}]
    /\ polled \in Event \cup {NoEvent}
    /\ spoken \in Seq(Event)

-----------------------------------------------------------------------------
(* All events from the oldest spoken to the newest queued. *)
Line == spoken \o (IF polled = NoEvent THEN << >> ELSE <<polled>>) \o events

(* What a behaviour says is told in the order it happened and told once,   *)
(* however the two behaviours' three-step notify() and the reader mix      *)
(* (notify, poll, NotificationInput.__call__).                             *)
ToldInOrder == \A i, j \in 1..Len(Line) :
    i < j /\ Line[i].by = Line[j].by => Line[i].n < Line[j].n
=============================================================================
