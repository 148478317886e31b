---------------------------- MODULE GreeterLatch ----------------------------
(***************************************************************************)
(* Whom the greeter greets (voice_agent/go2_ros2_client.py): the armed     *)
(* latch of _greeter_loop, its debounce and its clock, against a detector  *)
(* that may miss a visitor in some arrays or stop for a while, and against *)
(* greetings that take long or raise.  What a greeting does to the robot   *)
(* is the subject of Behaviours.                                           *)
(*                                                                         *)
(* A unit of time is long enough for the loop to poll once.  Times are     *)
(* ages, counted up to one more than Reset.                                *)
(***************************************************************************)
EXTENDS Integers

CONSTANTS
    Reset,    \* GREETER_RESET_AFTER
    ConfirmPolls,   \* GREETER_CONFIRM_POLLS
    History   \* GREETER_HISTORY_MAX

ASSUME GreeterAssumption ==
    Reset \in Nat /\ ConfirmPolls \in Nat \ {0} /\ History \in Nat \ {0}

VARIABLES
    array,    \* the cached detections: a person is among them
    unread,   \* the debounce has not examined them
    inView,   \* debounce.latest is a person
    inARow,   \* debounce.frames
    armed,    \* the latch
    age,      \* time since last_person_ts
    watch,    \* "poll", "polled" or "greet"
    unspoken, \* _greeter_pending, by its length
    greeted,  \* the last greeting ended well
    unseen,   \* time since an array with a person arrived or a greeting ended
    gap       \* the longest such time since the last greeting ended

greeterVars ==
    <<array, unread, inView, inARow, armed, age, watch, unspoken, greeted, unseen, gap>>

Later(n) == IF n > Reset THEN n ELSE n + 1

GreeterInit ==
    /\ array = FALSE /\ unread = FALSE
    /\ inView = FALSE /\ inARow = 0
    /\ armed = TRUE /\ age = 0
    /\ watch = "poll"
    /\ unspoken = 0
    /\ greeted = FALSE /\ unseen = 0 /\ gap = 0

(* _on_detections.  The loop polls more often than the detector publishes,  *)
(* except while it greets.  An array that grows too old before it is polled *)
(* (_fresh_detections) counts as an empty one that arrived in its place.    *)
ArrayArrives ==
    /\ ~unread \/ watch = "greet"
    /\ array' \in BOOLEAN
    /\ unread' = TRUE
    /\ unseen' = IF array' THEN 0 ELSE unseen
    /\ UNCHANGED <<inView, inARow, armed, age, watch, unspoken, greeted, gap>>

TimePasses ==
    /\ watch # "poll"
    /\ watch' = IF watch = "polled" THEN "poll" ELSE watch
    /\ age' = Later(age)
    /\ unseen' = Later(unseen)
    /\ gap' = IF unseen' > gap THEN unseen' ELSE gap
    /\ UNCHANGED <<array, unread, inView, inARow, armed, unspoken, greeted>>

(* _DetectionDebounce.tick. *)
DebounceTick ==
    /\ unread' = FALSE
    /\ inView' = IF unread THEN array ELSE inView
    /\ inARow' = IF ~unread THEN inARow
                 ELSE IF ~array THEN 0
                 ELSE IF inARow < ConfirmPolls THEN inARow + 1 ELSE inARow

(* Mutant: re-armed as soon as nobody is in view. *)
RearmsAtOnce(seen, since) == ~seen

(* Nobody has been in view for longer than GREETER_RESET_AFTER. *)
Rearms(seen, since) == ~seen /\ since > Reset

(* An iteration of _greeter_loop up to the greeting. *)
Poll ==
    /\ watch = "poll"
    /\ DebounceTick
    /\ age' = IF unread /\ array THEN 0 ELSE age
    /\ LET ready == armed \/ Rearms(inView', age')
           greets == ready /\ inView' /\ inARow' >= ConfirmPolls
       IN  /\ armed' = (ready /\ ~greets)
           /\ watch' = IF greets THEN "greet" ELSE "polled"
    /\ UNCHANGED <<array, unspoken, greeted, unseen, gap>>

(* _perform_greeting returns: it queues the greeting for the agent, and     *)
(* the loop counts the visitor as present until now.                       *)
GreetingEnds ==
    /\ watch = "greet"
    /\ unspoken' = IF unspoken = History THEN unspoken ELSE unspoken + 1
    /\ age' = 0
    /\ inARow' = 0
    /\ greeted' = TRUE /\ unseen' = 0 /\ gap' = 0
    /\ watch' = "polled"
    /\ UNCHANGED <<array, unread, inView, armed>>

(* It raises: the loop goes on, the latch stays down. *)
GreetingFails ==
    /\ watch = "greet"
    /\ inARow' = 0
    /\ watch' = "polled"
    /\ greeted' = FALSE
    /\ UNCHANGED <<array, unread, inView, armed, age, unspoken, unseen, gap>>

(* get_greeter_status drains the greetings that wait to be spoken. *)
StatusRead ==
    /\ unspoken > 0
    /\ unspoken' = 0
    /\ UNCHANGED <<array, unread, inView, inARow, armed, age, watch, greeted, unseen, gap>>

GreeterNext ==
    ArrayArrives \/ TimePasses \/ Poll \/ GreetingEnds \/ GreetingFails \/ StatusRead

(* "so it won't wave repeatedly at the same visitor" (start_greeter): after *)
(* a greeting, the next one needs a stretch longer than                    *)
(* GREETER_RESET_AFTER without an array that shows a person, however long  *)
(* the greeting took and whatever the detector missed.  (After a greeting   *)
(* that raised there is no such promise: its length counts as absence.)     *)
OnePerVisit ==
    [][watch = "poll" /\ watch' = "greet" /\ greeted => gap > Reset]_greeterVars
=============================================================================
